---------------------------- MODULE Spec2Model ----------------------------
(***************************************************************************)
(* Model of the quantitative core of the Supply-Chain Forecasting Tool:    *)
(*   src/utils/forecasting.ts   (forecast methods, orchestrator, metrics)  *)
(*   src/utils/supplyChain.ts   (policy engine, Pareto classifier)         *)
(*   src/unnamed/part_001       (the earlier copy of forecasting.ts)       *)
(* and of the chat panel:                                                  *)
(*   src/components/ChatAgent.tsx (send, reply, clear)                     *)
(*                                                                         *)
(* The entry points of the core are pure functions.  A behaviour of the    *)
(* model is one call: Init draws the arguments from bounded sets, the      *)
(* action applies the function and stores what it returns.  The chat panel *)
(* is a component with state: its behaviours are sequences of user events  *)
(* and of replies of the chat service.                                     *)
(*                                                                         *)
(* JavaScript numbers.  A number is a pair <<n, d>> with d >= 0, in lowest *)
(* terms: the rational n/d when d > 0, NaN = <<0,0>>, +Infinity = <<1,0>>, *)
(* -Infinity = <<-1,0>>.  `undefined` is <<>>.  +, -, *, / are exact on    *)
(* rationals and follow IEEE-754 on the three special values (-0 is not    *)
(* told from 0).  binary64 rounding is modelled where the exact value does *)
(* not stay a small rational: Math.sqrt, every multiplication that has a   *)
(* square root as a factor, and every operation of the Holt-Winters        *)
(* recurrence are rounded to the nearest multiple of 1/Scale (Fl).         *)
(***************************************************************************)
EXTENDS Integers, Sequences, FiniteSets, TLC

VARIABLES
    pc,     \* "call": arguments chosen; "forecast": series computed; "return": returned
    fn,     \* the entry point this run calls
    args,   \* its arguments, a record with the parameter names of the source
    raw,    \* the series calculateForecast returned, passed on to the policy engine
    ret,    \* what the entry point returned (<<>> before the return)
    isOpen,     \* ChatAgent: the panel is shown
    messages,   \* ChatAgent: the message list
    input,      \* ChatAgent: the text of the input field
    isLoading,  \* ChatAgent: a reply is awaited
    requests    \* the calls of getChatResponse not yet resolved, each with the
                \* newMessages its handleSend holds

callVars == <<pc, fn, args, raw, ret>>
chatVars == <<isOpen, messages, input, isLoading, requests>>
vars == <<pc, fn, args, raw, ret, isOpen, messages, input, isLoading, requests>>

---------------------------------------------------------------------------
(* Bounds of the model *)

MaxLen == 4          \* longest historical series
MaxHorizon == 4      \* longest forecast horizon
MaxQuantity == 2     \* largest quantity of one observation
MaxPairs == 3        \* longest actual / forecast series given to calculateMetrics
MaxSkus == 4         \* most SKUs given to runParetoAnalysis
MaxClean == 8        \* longest series given to cleanAnomalies

\* Grid of the rounded operations: results are multiples of 1/Scale.
Scale == 10 * 10 * 10

---------------------------------------------------------------------------
(* JavaScript numbers *)

NaN == <<0, 0>>
PosInf == <<1, 0>>
NegInf == <<-1, 0>>
Undefined == <<>>

AbsInt(i) == IF i < 0 THEN -i ELSE i
SignInt(i) == IF i < 0 THEN -1 ELSE IF i = 0 THEN 0 ELSE 1

RECURSIVE GCD(_, _)
GCD(a, b) == IF b = 0 THEN a ELSE GCD(b, a % b)

\* The number n/d in lowest terms (d may be 0 or negative).
Norm(n, d) ==
    IF d = 0 THEN <<SignInt(n), 0>>
    ELSE LET s == IF d < 0 THEN -1 ELSE 1
             g == GCD(AbsInt(n), AbsInt(d))
         IN  <<(s * n) \div g, (s * d) \div g>>

N(i) == <<i, 1>>
Q(n, d) == Norm(n, d)

IsNaN(x) == x = NaN
IsFinite(x) == x # Undefined /\ x[2] # 0
IsInteger(x) == x # Undefined /\ x[2] = 1

\* ToNumber: undefined becomes NaN in arithmetic.
ToNum(x) == IF x = Undefined THEN NaN ELSE x

Neg(x) == <<-x[1], x[2]>>
Abs(x) == <<AbsInt(x[1]), x[2]>>

Add(a, b) ==
    IF \/ a = Undefined
       \/ b = Undefined
       \/ IsNaN(a)
       \/ IsNaN(b)
    THEN NaN
    ELSE IF a[2] = 0 THEN (IF b[2] = 0 /\ b[1] # a[1] THEN NaN ELSE a)
    ELSE IF b[2] = 0 THEN b
    ELSE LET g == GCD(a[2], b[2])
             l == (a[2] \div g) * b[2]
         IN  Norm(a[1] * (l \div a[2]) + b[1] * (l \div b[2]), l)

Sub(a, b) == Add(a, Neg(ToNum(b)))

Mul(a, b) ==
    IF \/ a = Undefined
       \/ b = Undefined
    THEN NaN
    ELSE IF a[2] = 0 \/ b[2] = 0 THEN <<SignInt(a[1]) * SignInt(b[1]), 0>>
    ELSE LET g1 == GCD(AbsInt(a[1]), b[2])
             g2 == GCD(AbsInt(b[1]), a[2])
         IN  Norm((a[1] \div g1) * (b[1] \div g2), (a[2] \div g2) * (b[2] \div g1))

Div(a, b) ==
    IF \/ a = Undefined
       \/ b = Undefined
       \/ IsNaN(a)
       \/ IsNaN(b)
    THEN NaN
    ELSE IF b[2] = 0 THEN (IF a[2] = 0 THEN NaN ELSE N(0))
    ELSE IF b[1] = 0 THEN <<SignInt(a[1]), 0>>
    ELSE Mul(a, <<SignInt(b[1]) * b[2], AbsInt(b[1])>>)

\* a < b, a <= b, a === b, a > b: every comparison with NaN is false.
Lt(a, b) ==
    /\ a # Undefined
    /\ b # Undefined
    /\ ~IsNaN(a)
    /\ ~IsNaN(b)
    /\ IF a[2] = 0 /\ b[2] = 0 THEN a[1] < b[1]
       ELSE a[1] * b[2] < b[1] * a[2]

Le(a, b) ==
    /\ a # Undefined
    /\ b # Undefined
    /\ ~IsNaN(a)
    /\ ~IsNaN(b)
    /\ (Lt(a, b) \/ a = b)

Gt(a, b) == Lt(b, a)
Ge(a, b) == Le(b, a)
StrictEq(a, b) == a = b /\ (a = Undefined \/ ~IsNaN(a))

\* Math.max(a, b): NaN when an argument is NaN.
MathMax(a, b) ==
    IF \/ a = Undefined
       \/ b = Undefined
       \/ IsNaN(a)
       \/ IsNaN(b)
    THEN NaN
    ELSE IF Lt(a, b) THEN b ELSE a

MathMin(a, b) ==
    IF \/ a = Undefined
       \/ b = Undefined
       \/ IsNaN(a)
       \/ IsNaN(b)
    THEN NaN
    ELSE IF Lt(b, a) THEN b ELSE a

\* Math.round(x) = floor(x + 0.5); NaN and the infinities are returned as they are.
MathRound(a) ==
    IF a = Undefined THEN NaN
    ELSE IF a[2] = 0 THEN a
    ELSE N((2 * a[1] + a[2]) \div (2 * a[2]))

\* x || y for numbers: y when x is 0, NaN or undefined.
\* x || y without the substitution: the fault C25_HoltWintersFinite has to detect.
OrElseKeep(x, y) == x

OrElse(x, y) ==
    IF \/ x = Undefined
       \/ IsNaN(x)
       \/ x = N(0)
    THEN y
    ELSE x

\* Largest r with r * r <= m, searched in lo .. hi.
RECURSIVE ISqrtIn(_, _, _)
ISqrtIn(m, lo, hi) ==
    IF lo >= hi THEN lo
    ELSE LET mid == (lo + hi + 1) \div 2
         IN  IF mid * mid <= m THEN ISqrtIn(m, mid, hi) ELSE ISqrtIn(m, lo, mid - 1)

ISqrt(m) == ISqrtIn(m, 0, IF m < 46340 THEN m ELSE 46340)

\* floor(x * k) for a finite x >= 0 and an integer k > 0.
FloorTimes(x, k) == (x[1] \div x[2]) * k + ((x[1] % x[2]) * k) \div x[2]

\* The multiple of 1/Scale nearest to a (ties away from 0).
Fl(a) ==
    IF a = Undefined THEN NaN
    ELSE IF a[2] = 0 THEN a
    ELSE LET r == (FloorTimes(Abs(a), 2 * Scale) + 1) \div 2
         IN  Norm(SignInt(a[1]) * r, Scale)

\* The grid of a square root keeps a relative precision, as a floating-point
\* number does: 1/Scale for an argument below 500, ten times coarser below 50000,
\* whole numbers above.
SqrtScale(a) ==
    IF a[1] \div a[2] < 500 THEN Scale
    ELSE IF a[1] \div a[2] < 50000 THEN Scale \div 10
    ELSE 1

\* Math.sqrt, correctly rounded to the grid: NaN below 0.
MathSqrt(a) ==
    IF a = Undefined THEN NaN
    ELSE IF IsNaN(a) \/ a[1] < 0 THEN NaN
    ELSE IF a[2] = 0 THEN a
    ELSE Norm((ISqrt(FloorTimes(a, 4 * SqrtScale(a) * SqrtScale(a))) + 1) \div 2,
              SqrtScale(a))

\* Rounded product and quotient.
FMul(a, b) == Fl(Mul(a, b))
FDiv(a, b) == Fl(Div(a, b))
FAdd(a, b) == Fl(Add(a, b))
FSub(a, b) == Fl(Sub(a, b))

---------------------------------------------------------------------------
(* Arrays: 0-based reads as in the source; a read outside the array is undefined *)

At(a, i) == IF i >= 0 /\ i < Len(a) THEN a[i + 1] ELSE Undefined

\* a.slice(-k): the last k elements (all of them when there are fewer).
SliceLast(a, k) == IF Len(a) <= k THEN a ELSE SubSeq(a, Len(a) - k + 1, Len(a))

\* values.reduce((a, b) => a + b, 0), left to right.
RECURSIVE SumUpTo(_, _)
SumUpTo(a, k) == IF k = 0 THEN N(0) ELSE Add(SumUpTo(a, k - 1), a[k])

Sum(a) == SumUpTo(a, Len(a))

MinInt(a, b) == IF a < b THEN a ELSE b

\* The array built by pushing f[1], ..., f[n] in order (push in a loop, map).
RECURSIVE Pushed(_, _)
Pushed(f, n) == IF n = 0 THEN <<>> ELSE Append(Pushed(f, n - 1), f[n])

---------------------------------------------------------------------------
(* Dates: a calendar day [y, m, d] with m in 1..12, read and written in UTC *)

IsLeap(y) == (y % 4 = 0 /\ y % 100 # 0) \/ y % 400 = 0

DaysInMonth(y, m) ==
    IF m = 2 THEN (IF IsLeap(y) THEN 29 ELSE 28)
    ELSE IF m \in {4, 6, 9, 11} THEN 30 ELSE 31

\* The day `d` of month index m0 (0-based, may exceed 11) of year y, where d may
\* exceed the length of the month: the Date constructor carries the excess over.
RECURSIVE MakeDate(_, _, _)
MakeDate(y, m0, d) ==
    LET yy == y + (m0 \div 12)
        mm == (m0 % 12) + 1
    IN  IF d > DaysInMonth(yy, mm) THEN MakeDate(yy, (m0 % 12) + 1, d - DaysInMonth(yy, mm))
        ELSE IF d < 1 THEN MakeDate(yy, (m0 % 12) - 1, d + DaysInMonth(yy + ((m0 % 12) - 1) \div 12, (((m0 % 12) - 1) % 12) + 1))
        ELSE [y |-> yy, m |-> mm, d |-> d]

\* date.setMonth(month0): same year and day of month, month index month0.
SetMonth(date, month0) == MakeDate(date.y, month0, date.d)

\* SetDate that stops at the first day of the month instead of carrying into the
\* month before: the fault C17_OffsetIsCosmetic has to detect.
SetDateClamped(date, day) == MakeDate(date.y, date.m - 1, IF day < 1 THEN 1 ELSE day)

\* date.setDate(day): same year and month, day of month `day`.
SetDate(date, day) == MakeDate(date.y, date.m - 1, day)

\* date.getMonth(): 0-based.
GetMonth(date) == date.m - 1

---------------------------------------------------------------------------
(* src/utils/forecasting.ts *)

HOLT_WINTERS == "Holt-Winters (Triple Exponential)"
PROPHET == "Prophet-Inspired (Additive)"
ARIMA == "ARIMA (Auto-Regressive)"
LINEAR == "Linear Regression"
ForecastMethodology == {HOLT_WINTERS, PROPHET, ARIMA, LINEAR}

RECURSIVE SumSqDev(_, _, _)
SumSqDev(values, mean, k) ==
    IF k = 0 THEN N(0)
    ELSE Add(SumSqDev(values, mean, k - 1),
             Mul(Sub(values[k], mean), Sub(values[k], mean)))

getStdDev(values) ==
    LET n == Len(values)
    IN  IF n = 0 THEN N(0)
        ELSE LET mean == Div(Sum(values), N(n))
             IN  MathSqrt(Div(SumSqDev(values, mean, n), N(n)))

getZMultiplier(conf) ==
    IF Ge(conf, N(99)) THEN Q(2576, 1000)
    ELSE IF Ge(conf, N(95)) THEN Q(196, 100)
    ELSE IF Ge(conf, N(90)) THEN Q(1645, 1000)
    ELSE IF Ge(conf, N(85)) THEN Q(144, 100)
    ELSE IF Ge(conf, N(80)) THEN Q(128, 100)
    ELSE Q(196, 100)

\* cleanAnomalies writing the mean itself instead of Math.round(mean): the fault
\* C20_CleanAnomalies has to detect.
cleanAnomaliesUnrounded(data) ==
    LET values == Pushed([k \in 1..Len(data) |-> data[k].quantity], Len(data))
        mean == Div(Sum(values), OrElse(N(Len(values)), N(1)))
        std == getStdDev(values)
    IN  Pushed([k \in 1..Len(data) |->
            LET d == data[k]
                isAnomaly == Gt(Abs(Sub(d.quantity, mean)), FMul(Q(25, 10), std))
            IN  IF isAnomaly THEN [d EXCEPT !.quantity = mean] ELSE d],
            Len(data))

\* cleanAnomalies with the threshold at 2 standard deviations: the fault
\* C26_ShortSeriesUnchanged has to detect.
cleanAnomaliesTwoSigma(data) ==
    LET values == Pushed([k \in 1..Len(data) |-> data[k].quantity], Len(data))
        mean == Div(Sum(values), OrElse(N(Len(values)), N(1)))
        std == getStdDev(values)
    IN  Pushed([k \in 1..Len(data) |->
            LET d == data[k]
                isAnomaly == Gt(Abs(Sub(d.quantity, mean)), FMul(N(2), std))
            IN  IF isAnomaly THEN [d EXCEPT !.quantity = MathRound(mean)] ELSE d],
            Len(data))

cleanAnomalies(data) ==
    LET values == Pushed([k \in 1..Len(data) |-> data[k].quantity], Len(data))
        mean == Div(Sum(values), OrElse(N(Len(values)), N(1)))
        std == getStdDev(values)
    IN  Pushed([k \in 1..Len(data) |->
            LET d == data[k]
                isAnomaly == Gt(Abs(Sub(d.quantity, mean)), FMul(Q(25, 10), std))
            IN  IF isAnomaly THEN [d EXCEPT !.quantity = MathRound(mean)] ELSE d],
            Len(data))

\* new Array(L).fill(1), then seasonal[i] = values[i] / (level || 1) for i < min(n, L)
HWInitSeasonal(values, L, level) ==
    Pushed([j \in 1..L |->
        IF j <= MinInt(Len(values), L)
        THEN FDiv(values[j], OrElse(level, N(1)))
        ELSE N(1)], L)

\* One iteration (index i, 0-based) of the smoothing loop on state st.
HWStep(st, value, i, L) ==
    LET alpha == Q(3, 10)
        beta == Q(1, 10)
        gamma == Q(2, 10)
        s == st.seasonal[(i % L) + 1]
        prevLevel == st.level
        level == FAdd(FMul(alpha, FDiv(value, OrElse(s, N(1)))),
                      FMul(Sub(N(1), alpha), FAdd(st.level, st.trend)))
        trend == FAdd(FMul(beta, FSub(level, prevLevel)),
                      FMul(Sub(N(1), beta), st.trend))
        seas == FAdd(FMul(gamma, FDiv(value, OrElse(level, N(1)))),
                     FMul(Sub(N(1), gamma), s))
    IN  [st EXCEPT !.level = level, !.trend = trend, !.seasonal[(i % L) + 1] = seas]

\* The state after iterations 0 .. k-1 of the smoothing loop.
RECURSIVE HWLoop(_, _, _)
HWLoop(values, L, k) ==
    IF k = 0
    THEN [level |-> At(values, 0),
          trend |-> FSub(At(values, 1), At(values, 0)),
          seasonal |-> HWInitSeasonal(values, L, At(values, 0))]
    ELSE HWStep(HWLoop(values, L, k - 1), values[k], k - 1, L)

runHoltWinters(values, horizon, L) ==
    LET st == HWLoop(values, L, Len(values))
    IN  Pushed([i \in 1..horizon |->
            MathMax(N(0), FMul(FAdd(st.level, FMul(N(i), st.trend)),
                               st.seasonal[((Len(values) + i - 1) % L) + 1]))], horizon)

runProphet(values, horizon) ==
    LET n == Len(values)
        recentValues == SliceLast(values, 12)
        avgGrowth == Div(Sub(At(values, n - 1), At(values, 0)), N(n))
    IN  Pushed([i \in 1..horizon |->
            LET seasonalBase == At(recentValues, (i - 1) % 12)
                simulatedVal == Add(seasonalBase, Mul(Mul(avgGrowth, Q(12, 10)), N(i)))
            IN  MathMax(N(0), simulatedVal)], horizon)

\* ArimaVal with the coefficient -0.85, which steps over the mean: the fault
\* C24_ArimaMeanReverting has to detect.
RECURSIVE ArimaValAlternating(_, _)
ArimaValAlternating(values, k) ==
    LET n == Len(values)
        arCoefficient == Q(-85, 100)
        mean == Div(Sum(values), N(n))
    IN  IF k = 0 THEN At(values, n - 1)
        ELSE Add(mean, Mul(arCoefficient, Sub(ArimaValAlternating(values, k - 1), mean)))

\* currentVal after k iterations of the loop of runArima.
RECURSIVE ArimaVal(_, _)
ArimaVal(values, k) ==
    LET n == Len(values)
        arCoefficient == Q(85, 100)
        mean == Div(Sum(values), N(n))
    IN  IF k = 0 THEN At(values, n - 1)
        ELSE Add(mean, Mul(arCoefficient, Sub(ArimaVal(values, k - 1), mean)))

runArima(values, horizon) ==
    Pushed([i \in 1..horizon |-> MathMax(N(0), ArimaVal(values, i))], horizon)

\* The sums of the loop of runLinear over i = 0 .. k-1.
RECURSIVE LinearSums(_, _)
LinearSums(values, k) ==
    IF k = 0 THEN [sumX |-> N(0), sumY |-> N(0), sumXY |-> N(0), sumXX |-> N(0)]
    ELSE LET p == LinearSums(values, k - 1)
             i == k - 1
         IN  [sumX |-> Add(p.sumX, N(i)),
              sumY |-> Add(p.sumY, values[k]),
              sumXY |-> Add(p.sumXY, Mul(N(i), values[k])),
              sumXX |-> Add(p.sumXX, N(i * i))]

\* runLinear projecting at x = n + i, as if the history were numbered from 1: the
\* fault C19_LinearHistory has to detect.
runLinearFromOne(values, horizon) ==
    LET n == Len(values)
        s == LinearSums(values, n)
        slope == Div(Sub(Mul(N(n), s.sumXY), Mul(s.sumX, s.sumY)),
                     Sub(Mul(N(n), s.sumXX), Mul(s.sumX, s.sumX)))
        intercept == Div(Sub(s.sumY, Mul(slope, s.sumX)), N(n))
    IN  Pushed([i \in 1..horizon |->
            MathMax(N(0), Add(Mul(slope, N(n + i)), intercept))], horizon)

runLinear(values, horizon) ==
    LET n == Len(values)
        s == LinearSums(values, n)
        slope == Div(Sub(Mul(N(n), s.sumXY), Mul(s.sumX, s.sumY)),
                     Sub(Mul(N(n), s.sumXX), Mul(s.sumX, s.sumX)))
        intercept == Div(Sub(s.sumY, Mul(slope, s.sumX)), N(n))
    IN  Pushed([i \in 1..horizon |->
            MathMax(N(0), Add(Mul(slope, N(n + i - 1)), intercept))], horizon)

\* ForecastPointOf with the isForecast flag of a historical point: the fault
\* C1_EchoThenForecast has to detect.
ForecastPointUnflagged(val, i, multiplier, stdDev, lastDate) ==
    LET step == i + 1
        forecastDate == SetMonth(lastDate, GetMonth(lastDate) + step)
        uncertainty == FMul(FMul(FMul(multiplier, stdDev), MathSqrt(N(step))), Q(4, 10))
    IN  [date |-> forecastDate,
         forecast |-> MathRound(val),
         lowerBound |-> MathMax(N(0), MathRound(Sub(val, uncertainty))),
         upperBound |-> MathRound(Add(val, uncertainty)),
         isForecast |-> FALSE]

\* The forecast point of step i + 1 (forecastValues.forEach callback).
ForecastPointOf(val, i, multiplier, stdDev, lastDate) ==
    LET step == i + 1
        forecastDate == SetMonth(lastDate, GetMonth(lastDate) + step)
        uncertainty == FMul(FMul(FMul(multiplier, stdDev), MathSqrt(N(step))), Q(4, 10))
    IN  [date |-> forecastDate,
         forecast |-> MathRound(val),
         lowerBound |-> MathMax(N(0), MathRound(Sub(val, uncertainty))),
         upperBound |-> MathRound(Add(val, uncertainty)),
         isForecast |-> TRUE]

\* calculateForecast with the early return at fewer than 2 points instead of 3: the
\* fault C3_ShortHistoryEmpty has to detect.
calculateForecastFrom2(historicalData, horizon, interval, confidenceLevel, method) ==
    IF Len(historicalData) < 2 THEN <<>>
    ELSE LET values == Pushed([k \in 1..Len(historicalData) |-> historicalData[k].quantity], Len(historicalData))
             n == Len(values)
             L == 12
             forecastValues ==
                 IF method = LINEAR THEN runLinear(values, horizon)
                 ELSE IF method = PROPHET THEN runProphet(values, horizon)
                 ELSE IF method = ARIMA THEN runArima(values, horizon)
                 ELSE runHoltWinters(values, horizon, L)
             results == Pushed([k \in 1..n |->
                            [date |-> historicalData[k].date,
                             historical |-> historicalData[k].quantity,
                             forecast |-> historicalData[k].quantity,
                             isForecast |-> FALSE]], n)
             multiplier == getZMultiplier(confidenceLevel)
             stdDev == getStdDev(values)
             lastDate == historicalData[n].date
         IN  results \o Pushed([k \in 1..Len(forecastValues) |->
                            ForecastPointOf(forecastValues[k], k - 1, multiplier, stdDev, lastDate)], Len(forecastValues))

calculateForecast(historicalData, horizon, interval, confidenceLevel, method) ==
    IF Len(historicalData) < 3 THEN <<>>
    ELSE LET values == Pushed([k \in 1..Len(historicalData) |-> historicalData[k].quantity], Len(historicalData))
             n == Len(values)
             L == 12
             forecastValues ==
                 IF method = LINEAR THEN runLinear(values, horizon)
                 ELSE IF method = PROPHET THEN runProphet(values, horizon)
                 ELSE IF method = ARIMA THEN runArima(values, horizon)
                 ELSE runHoltWinters(values, horizon, L)
             results == Pushed([k \in 1..n |->
                            [date |-> historicalData[k].date,
                             historical |-> historicalData[k].quantity,
                             forecast |-> historicalData[k].quantity,
                             isForecast |-> FALSE]], n)
             multiplier == getZMultiplier(confidenceLevel)
             stdDev == getStdDev(values)
             lastDate == historicalData[n].date
         IN  results \o Pushed([k \in 1..Len(forecastValues) |->
                            ForecastPointOf(forecastValues[k], k - 1, multiplier, stdDev, lastDate)], Len(forecastValues))

\* The sums of the loop of calculateMetrics over the first k aligned pairs.
RECURSIVE MetricSums(_, _, _)
MetricSums(actual, forecast, k) ==
    IF k = 0
    THEN [sumError |-> N(0), sumAbsError |-> N(0), sumSqError |-> N(0),
          sumPercError |-> N(0), sumActual |-> N(0),
          stockoutUnits |-> N(0), overstockUnits |-> N(0)]
    ELSE LET p == MetricSums(actual, forecast, k - 1)
             error == Sub(forecast[k], actual[k])
         IN  [sumError |-> Add(p.sumError, error),
              sumAbsError |-> Add(p.sumAbsError, Abs(ToNum(error))),
              sumSqError |-> Add(p.sumSqError, Mul(error, error)),
              sumPercError |-> IF ToNum(actual[k]) # N(0)
                               THEN Add(p.sumPercError, Abs(Div(error, actual[k])))
                               ELSE p.sumPercError,
              sumActual |-> Add(p.sumActual, actual[k]),
              stockoutUnits |-> IF Lt(error, N(0))
                                THEN Add(p.stockoutUnits, Abs(ToNum(error)))
                                ELSE p.stockoutUnits,
              overstockUnits |-> IF Lt(error, N(0))
                                 THEN p.overstockUnits
                                 ELSE Add(p.overstockUnits, error)]

\* calculateMetrics of src/utils/forecasting.ts, the module App.tsx imports.
calculateMetrics(actual, forecast, unitCost, sellingPrice) ==
    LET n == MinInt(Len(actual), Len(forecast))
        s == MetricSums(actual, forecast, n)
        mape == IF n > 0 THEN Mul(Div(s.sumAbsError, s.sumActual), N(100)) ELSE N(0)
    IN  [mape |-> mape,
         rmse |-> MathSqrt(Div(s.sumSqError, OrElse(N(n), N(1)))),
         bias |-> Mul(Div(s.sumError, OrElse(s.sumActual, N(1))), N(100)),
         mad |-> Div(s.sumAbsError, OrElse(N(n), N(1))),
         accuracy |-> MathMax(N(0), Sub(N(100), mape)),
         holdingCostRisk |-> N(0),
         stockoutRevenueRisk |-> N(0)]

---------------------------------------------------------------------------
(* src/unnamed/part_001: the earlier copy of the forecasting module *)

getZMultiplierV1(conf) ==
    IF Ge(conf, N(99)) THEN Q(2576, 1000)
    ELSE IF Ge(conf, N(95)) THEN Q(196, 100)
    ELSE IF Ge(conf, N(90)) THEN Q(1645, 1000)
    ELSE Q(128, 100)

cleanAnomaliesV1(data) ==
    LET values == Pushed([k \in 1..Len(data) |-> data[k].quantity], Len(data))
        mean == Div(Sum(values), OrElse(N(Len(values)), N(1)))
        std == getStdDev(values)
    IN  Pushed([k \in 1..Len(data) |->
            LET d == data[k]
                isAnomaly == Gt(Abs(Sub(d.quantity, mean)), FMul(N(2), std))
            IN  IF isAnomaly THEN [d EXCEPT !.quantity = MathRound(mean)] ELSE d],
            Len(data))

calculateMetricsV1(actual, forecast, unitCost, sellingPrice) ==
    LET n == MinInt(Len(actual), Len(forecast))
        s == MetricSums(actual, forecast, n)
        mape == Mul(Div(s.sumPercError, N(n)), N(100))
        holdingRate == Q(2, 100)
    IN  IF n = 0
        THEN [mape |-> N(0), rmse |-> N(0), bias |-> N(0), mad |-> N(0), accuracy |-> N(0),
              holdingCostRisk |-> N(0), stockoutRevenueRisk |-> N(0)]
        ELSE [mape |-> mape,
              rmse |-> MathSqrt(Div(s.sumSqError, N(n))),
              bias |-> IF s.sumActual # N(0)
                       THEN Mul(Div(s.sumError, s.sumActual), N(100)) ELSE N(0),
              mad |-> Div(s.sumAbsError, N(n)),
              accuracy |-> MathMax(N(0), Sub(N(100), mape)),
              holdingCostRisk |-> Mul(Mul(s.overstockUnits, unitCost), holdingRate),
              stockoutRevenueRisk |-> Mul(s.stockoutUnits, Sub(sellingPrice, unitCost))]

---------------------------------------------------------------------------
(* src/utils/supplyChain.ts *)

\* getZScore with exclusive lower bounds: the fault C12_ServiceLevelBands has to
\* detect.
getZScoreExclusive(serviceLevel) ==
    IF Gt(serviceLevel, Q(999, 1000)) THEN Q(309, 100)
    ELSE IF Gt(serviceLevel, Q(99, 100)) THEN Q(233, 100)
    ELSE IF Gt(serviceLevel, Q(98, 100)) THEN Q(205, 100)
    ELSE IF Gt(serviceLevel, Q(95, 100)) THEN Q(1645, 1000)
    ELSE IF Gt(serviceLevel, Q(90, 100)) THEN Q(128, 100)
    ELSE IF Gt(serviceLevel, Q(85, 100)) THEN Q(104, 100)
    ELSE IF Gt(serviceLevel, Q(80, 100)) THEN Q(84, 100)
    ELSE Q(1, 2)

getZScore(serviceLevel) ==
    IF Ge(serviceLevel, Q(999, 1000)) THEN Q(309, 100)
    ELSE IF Ge(serviceLevel, Q(99, 100)) THEN Q(233, 100)
    ELSE IF Ge(serviceLevel, Q(98, 100)) THEN Q(205, 100)
    ELSE IF Ge(serviceLevel, Q(95, 100)) THEN Q(1645, 1000)
    ELSE IF Ge(serviceLevel, Q(90, 100)) THEN Q(128, 100)
    ELSE IF Ge(serviceLevel, Q(85, 100)) THEN Q(104, 100)
    ELSE IF Ge(serviceLevel, Q(80, 100)) THEN Q(84, 100)
    ELSE Q(5, 10)

\* forecast.filter(f => f.isForecast)
RECURSIVE FilterForecast(_)
FilterForecast(forecast) ==
    IF forecast = <<>> THEN <<>>
    ELSE (IF Head(forecast).isForecast THEN <<Head(forecast)>> ELSE <<>>)
         \o FilterForecast(Tail(forecast))

\* FindScenario returning the last match instead of the first: the fault
\* C16_FirstOfDuplicatesWins has to detect.
RECURSIVE FindScenarioLast(_, _)
FindScenarioLast(scenarios, forecastCounter) ==
    IF scenarios = <<>> THEN Undefined
    ELSE IF scenarios[Len(scenarios)].month = forecastCounter
    THEN scenarios[Len(scenarios)]
    ELSE FindScenarioLast(SubSeq(scenarios, 1, Len(scenarios) - 1), forecastCounter)

\* scenarios.find(s => s.month === forecastCounter): the first match, or undefined.
RECURSIVE FindScenario(_, _)
FindScenario(scenarios, forecastCounter) ==
    IF scenarios = <<>> THEN Undefined
    ELSE IF Head(scenarios).month = forecastCounter THEN Head(scenarios)
    ELSE FindScenario(Tail(scenarios), forecastCounter)

\* ScenarioVal without Math.round: the fault C8_ScenarioRounded has to detect.
ScenarioValUnrounded(p, scenarios, forecastCounter) ==
    IF p.isForecast
    THEN LET activeScenario == FindScenario(scenarios, forecastCounter)
         IN  IF activeScenario # Undefined
             THEN Mul(p.forecast, activeScenario.multiplier)
             ELSE p.forecast
    ELSE p.forecast

\* scenarioVal of point p when it is the forecastCounter-th forecast point.
ScenarioVal(p, scenarios, forecastCounter) ==
    IF p.isForecast
    THEN LET activeScenario == FindScenario(scenarios, forecastCounter)
         IN  IF activeScenario # Undefined
             THEN MathRound(Mul(p.forecast, activeScenario.multiplier))
             ELSE p.forecast
    ELSE p.forecast

\* WalkState with the balance clamped at 0: the fault C9_RunningBalance has to detect.
RECURSIVE WalkStateClamped(_, _, _, _)
WalkStateClamped(forecast, onHand, scenarios, k) ==
    IF k = 0 THEN [runningInventory |-> onHand, forecastCounter |-> 0]
    ELSE LET prev == WalkStateClamped(forecast, onHand, scenarios, k - 1)
             p == forecast[k]
         IN  IF p.isForecast
             THEN [prev EXCEPT
                       !.forecastCounter = @ + 1,
                       !.runningInventory =
                           MathMax(N(0), Sub(@, ScenarioVal(p, scenarios,
                                                            prev.forecastCounter + 1)))]
             ELSE prev

\* runningInventory and forecastCounter after the map callback has run on the
\* first k points.
RECURSIVE WalkState(_, _, _, _)
WalkState(forecast, onHand, scenarios, k) ==
    IF k = 0 THEN [runningInventory |-> onHand, forecastCounter |-> 0]
    ELSE LET prev == WalkState(forecast, onHand, scenarios, k - 1)
             p == forecast[k]
         IN  IF p.isForecast
             THEN [prev EXCEPT
                       !.forecastCounter = @ + 1,
                       !.runningInventory =
                           Sub(@, ScenarioVal(p, scenarios, prev.forecastCounter + 1))]
             ELSE prev

\* attributes.reduce((s, a) => s + a[field], 0) / attributes.length
AttrAvg(attributes, field) ==
    Div(Sum([k \in 1..Len(attributes) |-> attributes[k][field]]), N(Len(attributes)))

\* calculateSupplyChainMetrics giving the safety stock to the forecast points only:
\* the fault C18_PolicyValuesConstant has to detect.
calculateSupplyChainMetricsForecastOnly(forecast, historicalStdDev, leadTimeDays, serviceLevel, onHand, scenarios, showOffset, volatilityMultiplier, attributes) ==
    LET z == getZScore(serviceLevel)
        adjustedLeadTime == Mul(leadTimeDays, Add(N(1), volatilityMultiplier))
        leadTimePeriods == Div(adjustedLeadTime, N(30))
        safetyStock == MathRound(FMul(FMul(z, historicalStdDev), MathSqrt(leadTimePeriods)))
        forecastOnly == FilterForecast(forecast)
        forecastAvg ==
            Div(Sum([k \in 1..Len(forecastOnly) |-> forecastOnly[k].forecast]),
                OrElse(N(Len(forecastOnly)), N(1)))
        avgDailyDemand == Div(forecastAvg, N(30))
        reorderPoint == MathRound(Add(Mul(avgDailyDemand, adjustedLeadTime), safetyStock))
        avgPrice == IF Len(attributes) > 0 THEN AttrAvg(attributes, "sellingPrice") ELSE N(150)
        avgCost == IF Len(attributes) > 0 THEN AttrAvg(attributes, "unitCost") ELSE N(100)
    IN  Pushed([k \in 1..Len(forecast) |->
            LET p == forecast[k]
                st == WalkState(forecast, onHand, scenarios, k)
                scenarioVal == ScenarioVal(p, scenarios, st.forecastCounter)
                runningInventory == st.runningInventory
                offsetDate ==
                    IF showOffset /\ p.isForecast
                    THEN SetDate(p.date, p.date.d - leadTimeDays[1])
                    ELSE p.date
            IN  [date |-> offsetDate,
                 scenarioForecast |-> IF p.isForecast THEN scenarioVal ELSE Undefined,
                 safetyStock |-> IF p.isForecast THEN safetyStock ELSE N(0),
                 reorderPoint |-> reorderPoint,
                 projectedInventory |-> IF p.isForecast THEN runningInventory ELSE onHand,
                 projectedRevenue |->
                     IF p.isForecast THEN MathRound(Mul(scenarioVal, avgPrice)) ELSE Undefined,
                 projectedMargin |->
                     IF p.isForecast THEN MathRound(Mul(scenarioVal, Sub(avgPrice, avgCost)))
                     ELSE Undefined,
                 inventoryValue |->
                     MathRound(Mul(IF p.isForecast THEN runningInventory ELSE onHand, avgCost))]
                @@ p], Len(forecast))

calculateSupplyChainMetrics(forecast, historicalStdDev, leadTimeDays, serviceLevel, onHand, scenarios, showOffset, volatilityMultiplier, attributes) ==
    LET z == getZScore(serviceLevel)
        adjustedLeadTime == Mul(leadTimeDays, Add(N(1), volatilityMultiplier))
        leadTimePeriods == Div(adjustedLeadTime, N(30))
        safetyStock == MathRound(FMul(FMul(z, historicalStdDev), MathSqrt(leadTimePeriods)))
        forecastOnly == FilterForecast(forecast)
        forecastAvg ==
            Div(Sum([k \in 1..Len(forecastOnly) |-> forecastOnly[k].forecast]),
                OrElse(N(Len(forecastOnly)), N(1)))
        avgDailyDemand == Div(forecastAvg, N(30))
        reorderPoint == MathRound(Add(Mul(avgDailyDemand, adjustedLeadTime), safetyStock))
        avgPrice == IF Len(attributes) > 0 THEN AttrAvg(attributes, "sellingPrice") ELSE N(150)
        avgCost == IF Len(attributes) > 0 THEN AttrAvg(attributes, "unitCost") ELSE N(100)
    IN  Pushed([k \in 1..Len(forecast) |->
            LET p == forecast[k]
                st == WalkState(forecast, onHand, scenarios, k)
                scenarioVal == ScenarioVal(p, scenarios, st.forecastCounter)
                runningInventory == st.runningInventory
                offsetDate ==
                    IF showOffset /\ p.isForecast
                    THEN SetDate(p.date, p.date.d - leadTimeDays[1])
                    ELSE p.date
            IN  [date |-> offsetDate,
                 scenarioForecast |-> IF p.isForecast THEN scenarioVal ELSE Undefined,
                 safetyStock |-> safetyStock,
                 reorderPoint |-> reorderPoint,
                 projectedInventory |-> IF p.isForecast THEN runningInventory ELSE onHand,
                 projectedRevenue |->
                     IF p.isForecast THEN MathRound(Mul(scenarioVal, avgPrice)) ELSE Undefined,
                 projectedMargin |->
                     IF p.isForecast THEN MathRound(Mul(scenarioVal, Sub(avgPrice, avgCost)))
                     ELSE Undefined,
                 inventoryValue |->
                     MathRound(Mul(IF p.isForecast THEN runningInventory ELSE onHand, avgCost))]
                @@ p], Len(forecast))

\* a placed before b by the comparator (a, b) => b.totalVolume - a.totalVolume
ParetoBefore(a, b) == Lt(Sub(b.totalVolume, a.totalVolume), N(0))

\* InsertSorted dropping an item whose volume is already in the list: the fault
\* C21_ParetoPermutation has to detect.
RECURSIVE InsertSortedDistinct(_, _)
InsertSortedDistinct(sorted, item) ==
    IF sorted = <<>> THEN <<item>>
    ELSE IF Head(sorted).totalVolume = item.totalVolume THEN sorted
    ELSE IF ParetoBefore(item, Head(sorted)) THEN <<item>> \o sorted
    ELSE <<Head(sorted)>> \o InsertSortedDistinct(Tail(sorted), item)

\* item inserted into the sorted list after every element that does not sort
\* after it (Array.prototype.sort is stable).
RECURSIVE InsertSorted(_, _)
InsertSorted(sorted, item) ==
    IF sorted = <<>> THEN <<item>>
    ELSE IF ParetoBefore(item, Head(sorted)) THEN <<item>> \o sorted
    ELSE <<Head(sorted)>> \o InsertSorted(Tail(sorted), item)

\* [...skuData].sort(...) of the first k items.
RECURSIVE SortDesc(_, _)
SortDesc(skuData, k) ==
    IF k = 0 THEN <<>> ELSE InsertSorted(SortDesc(skuData, k - 1), skuData[k])

\* ParetoGrade with both boundaries exclusive: the fault C7_ParetoGrades has to detect.
ParetoGradeExclusive(perc) ==
    IF Lt(perc, N(80)) THEN "A" ELSE IF Lt(perc, N(95)) THEN "B" ELSE "C"

\* ParetoGrade with the first two grades exchanged: the fault C27_GradesNeverImprove
\* has to detect.
ParetoGradeSwapped(perc) ==
    IF Le(perc, N(80)) THEN "B" ELSE IF Le(perc, N(95)) THEN "A" ELSE "C"

\* ParetoGrade with the second band reaching 100 percent: the fault C28_LastItemIsC
\* has to detect.
ParetoGradeWide(perc) ==
    IF Le(perc, N(80)) THEN "A" ELSE IF Le(perc, N(100)) THEN "B" ELSE "C"

ParetoGrade(perc) ==
    IF Le(perc, N(80)) THEN "A" ELSE IF Le(perc, N(95)) THEN "B" ELSE "C"

runParetoAnalysis(skuData) ==
    LET sorted == SortDesc(skuData, Len(skuData))
        volumes == Pushed([k \in 1..Len(sorted) |-> sorted[k].totalVolume], Len(sorted))
        total == Sum(volumes)
    IN  Pushed([k \in 1..Len(sorted) |->
            LET item == sorted[k]
                cumulative == SumUpTo(volumes, k)
                perc == Mul(Div(cumulative, OrElse(total, N(1))), N(100))
            IN  [grade |-> ParetoGrade(perc),
                 share |-> Mul(Div(item.totalVolume, OrElse(total, N(1))), N(100))]
                @@ item], Len(sorted))

---------------------------------------------------------------------------
(* Inputs *)

\* All sequences over S of length 0 .. n.
SeqsUpTo(S, n) == UNION {[1..k -> S] : k \in 0..n}

\* The aggregated series with quantities qs: one point per month from October 2023,
\* on the first of the month, the last one on day lastDay.
History(qs, lastDay) ==
    Pushed([k \in 1..Len(qs) |->
               [date |-> [y |-> 2023 + (8 + k) \div 12, m |-> ((8 + k) % 12) + 1,
                          d |-> IF k = Len(qs)
                                THEN MinInt(lastDay, DaysInMonth(2023 + (8 + k) \div 12,
                                                                 ((8 + k) % 12) + 1))
                                ELSE 1],
                sku |-> "ALL", category |-> "ALL", quantity |-> N(qs[k])]], Len(qs))

\* Quantities of one observation: none, one, the largest.
Quantities == {0, 1, MaxQuantity}
LastDays == {1, 31}
Horizons == 1..MaxHorizon
ConfidenceLevels == {N(80), N(99)}

\* stats.std of the caller: the population standard deviation of the series.
StatsStd(historicalData) ==
    getStdDev([k \in 1..Len(historicalData) |-> historicalData[k].quantity])

SampleAttribute ==
    [sku |-> "ALL", leadTimeDays |-> N(30), unitCost |-> N(10), sellingPrice |-> N(15),
     serviceLevel |-> Q(95, 100)]

ScenarioSet ==
    {[id |-> "s", name |-> "shock", month |-> m, multiplier |-> k] :
        m \in {1, 2, MaxHorizon + 1}, k \in {Q(3, 2), Q(1, 2)}}

Volatilities == {N(0), Q(1, 2), N(1)}

\* Arguments of a run of the forecast orchestrator followed by the policy engine
\* with its default operating parameters, on the series with quantities qs.
ForecastArgs(qs, day, h, c, m) ==
    [historicalData |-> History(qs, day), horizon |-> h, confidenceLevel |-> c,
     method |-> m, historicalStdDev |-> StatsStd(History(qs, day)),
     leadTimeDays |-> N(30), serviceLevel |-> Q(95, 100), onHand |-> N(10),
     scenarios |-> <<>>, showOffset |-> FALSE, volatilityMultiplier |-> N(0),
     attributes |-> <<>>]

\* Arguments of a run of the policy engine on the series calculateForecast returns
\* for the quantities qs.
SupplyChainArgs(qs, h, lt, sl, oh, sc, so, v, at) ==
    [historicalData |-> History(qs, 1), horizon |-> h, confidenceLevel |-> N(95),
     method |-> LINEAR, historicalStdDev |-> StatsStd(History(qs, 1)),
     leadTimeDays |-> lt, serviceLevel |-> sl, onHand |-> oh,
     scenarios |-> sc, showOffset |-> so, volatilityMultiplier |-> v,
     attributes |-> at]

\* The private forecast methods, by name.
MethodNames == {"runHoltWinters", "runProphet", "runArima", "runLinear"}

\* Arguments of a run of one forecast method: what calculateForecast passes on, a
\* series of values and a horizon.
MethodArgs(qs, h) ==
    [values |-> Pushed([k \in 1..Len(qs) |-> N(qs[k])], Len(qs)), horizon |-> h]

MetricValues == {0, 1, 3}

MetricsArgs(a, f, unitCost, sellingPrice) ==
    [actual |-> Pushed([k \in 1..Len(a) |-> N(a[k])], Len(a)),
     forecast |-> Pushed([k \in 1..Len(f) |-> N(f[k])], Len(f)),
     unitCost |-> unitCost, sellingPrice |-> sellingPrice]

Volumes == {0, 20, 50, 150, 300, 500}

\* The SKU totals vs, the SKU named by its position in the list.
ParetoArgs(vs) ==
    [skuData |-> Pushed([k \in 1..Len(vs) |-> [sku |-> k, totalVolume |-> N(vs[k])]],
                        Len(vs))]

\* Confidence percentages: every band boundary, a value just below it, the ends
\* of the percentage range.
ConfidencePercents ==
    {N(0), N(50), N(79), Q(799, 10), N(80), N(84), N(85), N(89), N(90), N(94), N(95),
     N(98), N(99), N(100)}

\* Service levels: every band boundary, a value just below it, values outside 0..1
\* and NaN.
ServiceLevels ==
    {N(-1), N(0), Q(1, 2), Q(79, 100), Q(80, 100), Q(84, 100), Q(85, 100), Q(89, 100),
     Q(90, 100), Q(94, 100), Q(95, 100), Q(979, 1000), Q(98, 100), Q(989, 1000),
     Q(99, 100), Q(998, 1000), Q(999, 1000), N(1), N(2), NaN}

\* Arguments of two calls of getZMultiplier, one record per call.
ZMultiplierArgs(a, b) == <<[conf |-> a], [conf |-> b]>>

\* Arguments of two calls of getZScore, one record per call.
ZScoreArgs(a, b) == <<[serviceLevel |-> a], [serviceLevel |-> b]>>

\* The exactly linear series a, a + b, ..., a + b * (n - 1).
LinearSeries(a, b, n) == [i \in 1..n |-> a + b * (i - 1)]

\* Intercepts, slopes and lengths of the linear histories.
LinearIntercepts == {0, 3, 100}
LinearSlopes == {-1, 0, 1, 10}
LinearLengths == {3, MaxLen, 12}

\* Quantities of a series with outliers: none, one, forty.
CleanQuantities == {0, 1, 40}

\* Argument of a run of the anomaly cleaner: the aggregated series with quantities qs.
CleanArgs(qs) == [data |-> History(qs, 1)]

---------------------------------------------------------------------------
(* The chat panel, src/components/ChatAgent.tsx *)
(* A text is the sequence of its characters; the fixed texts of the source  *)
(* are written as one element.                                              *)

\* A session of one turn more: the fault C29_OneRequestTwentyMessages has to detect.
MAX_TURNS_PLUS_ONE == 10 + 1

\* The largest number of user turns of one session.
MAX_TURNS == 10

\* String.prototype.trim: the text without its leading and trailing blanks.
RECURSIVE TrimStart(_)
TrimStart(text) ==
    IF text # <<>> /\ Head(text) = " " THEN TrimStart(Tail(text)) ELSE text

RECURSIVE TrimEnd(_)
TrimEnd(text) ==
    IF text # <<>> /\ text[Len(text)] = " "
    THEN TrimEnd(SubSeq(text, 1, Len(text) - 1))
    ELSE text

Trim(text) == TrimEnd(TrimStart(text))

\* The state of the component after its first render.
ChatAgentInitial ==
    /\ isOpen = FALSE
    /\ messages = <<>>
    /\ input = <<>>
    /\ isLoading = FALSE
    /\ requests = <<>>

\* The early return of handleSend.
SendBlocked(inp, loading, msgs) ==
    \/ Trim(inp) = <<>>
    \/ loading
    \/ Ge(Div(N(Len(msgs)), N(2)), N(MAX_TURNS))

UserMessage(inp) == [role |-> "user", content |-> Trim(inp)]

NewMessages(msgs, userMsg) == Append(msgs, userMsg)

\* The text shown when the service returned nothing.
NoResponse == <<"I'm sorry, I couldn't generate a response.">>

AssistantMessage(response) ==
    [role |-> "assistant", content |-> IF response # <<>> THEN response ELSE NoResponse]

turnsLeft(msgs) == MAX_TURNS - (Len(msgs) \div 2)

\* The disabled attribute of the input field.
InputDisabled(loading, msgs) == loading \/ turnsLeft(msgs) = 0

\* What the user types.
ChatInputs == {<<>>, <<" ">>, <<" ", "q", " ">>}

\* What getChatResponse resolves to: a text, or nothing.
ChatResponses == {<<>>, <<"r">>}

---------------------------------------------------------------------------
(* Runs *)

InitForecast ==
    /\ pc = "call"
    /\ fn = "calculateForecast"
    /\ \E qs \in SeqsUpTo(Quantities, MaxLen), day \in LastDays, h \in Horizons,
          c \in ConfidenceLevels, m \in ForecastMethodology :
           args = ForecastArgs(qs, day, h, c, m)
    /\ raw = <<>>
    /\ ret = <<>>
    /\ ChatAgentInitial

InitSupplyChain ==
    /\ pc = "forecast"
    /\ fn = "calculateSupplyChainMetrics"
    /\ \E qs \in [1..3 -> Quantities] \cup {<<>>}, h \in {0, MaxHorizon},
          lt \in {N(0), N(45)}, sl \in {Q(95, 100)}, oh \in {N(0), N(7)},
          sc \in SeqsUpTo(ScenarioSet, 2), so \in BOOLEAN, v \in {N(0), Q(1, 2)},
          at \in {<<>>} :
           args = SupplyChainArgs(qs, h, lt, sl, oh, sc, so, v, at)
    /\ raw = calculateForecast(args.historicalData, args.horizon, "monthly",
                               args.confidenceLevel, args.method)
    /\ ret = <<>>
    /\ ChatAgentInitial

InitMetrics ==
    /\ pc = "call"
    /\ fn \in {"calculateMetrics", "calculateMetricsV1"}
    /\ \E a \in SeqsUpTo(MetricValues, MaxPairs), f \in SeqsUpTo(MetricValues, MaxPairs),
          c \in {<<N(1), N(1)>>, <<N(50), N(100)>>} :
           args = MetricsArgs(a, f, c[1], c[2])
    /\ raw = <<>>
    /\ ret = <<>>
    /\ ChatAgentInitial

InitPareto ==
    /\ pc = "call"
    /\ fn = "runParetoAnalysis"
    /\ \E vs \in SeqsUpTo(Volumes, MaxSkus) : args = ParetoArgs(vs)
    /\ raw = <<>>
    /\ ret = <<>>
    /\ ChatAgentInitial

InitMethods ==
    /\ pc = "call"
    /\ fn \in MethodNames
    /\ \E qs \in {q \in SeqsUpTo(Quantities, MaxLen) : Len(q) >= 3}, h \in Horizons :
           args = MethodArgs(qs, h)
    /\ raw = <<>>
    /\ ret = <<>>
    /\ ChatAgentInitial

InitBands ==
    /\ pc = "call"
    /\ \/ /\ fn \in {"getZMultiplier", "getZMultiplierV1"}
          /\ \E a \in ConfidencePercents, b \in ConfidencePercents :
                 args = ZMultiplierArgs(a, b)
       \/ /\ fn = "getZScore"
          /\ \E a \in ServiceLevels, b \in ServiceLevels : args = ZScoreArgs(a, b)
    /\ raw = <<>>
    /\ ret = <<>>
    /\ ChatAgentInitial

InitLinear ==
    /\ pc = "call"
    /\ fn = "calculateForecast"
    /\ \E a \in LinearIntercepts, b \in LinearSlopes, n \in LinearLengths,
          h \in Horizons, c \in {N(80), N(95), N(99)} :
           /\ a + b * (n - 1) >= 0
           /\ args = ForecastArgs(LinearSeries(a, b, n), 1, h, c, LINEAR)
    /\ raw = <<>>
    /\ ret = <<>>
    /\ ChatAgentInitial

InitClean ==
    /\ pc = "call"
    /\ fn \in {"cleanAnomalies", "cleanAnomaliesV1"}
    /\ \E qs \in SeqsUpTo(CleanQuantities, MaxClean) : args = CleanArgs(qs)
    /\ raw = <<>>
    /\ ret = <<>>
    /\ ChatAgentInitial

RunHoltWinters ==
    /\ pc = "call"
    /\ fn = "runHoltWinters"
    /\ ret' = runHoltWinters(args.values, args.horizon, 12)
    /\ pc' = "return"
    /\ UNCHANGED <<fn, args, raw, chatVars>>

RunProphet ==
    /\ pc = "call"
    /\ fn = "runProphet"
    /\ ret' = runProphet(args.values, args.horizon)
    /\ pc' = "return"
    /\ UNCHANGED <<fn, args, raw, chatVars>>

RunArima ==
    /\ pc = "call"
    /\ fn = "runArima"
    /\ ret' = runArima(args.values, args.horizon)
    /\ pc' = "return"
    /\ UNCHANGED <<fn, args, raw, chatVars>>

RunLinear ==
    /\ pc = "call"
    /\ fn = "runLinear"
    /\ ret' = runLinear(args.values, args.horizon)
    /\ pc' = "return"
    /\ UNCHANGED <<fn, args, raw, chatVars>>

CalculateForecast ==
    /\ pc = "call"
    /\ fn = "calculateForecast"
    /\ raw' = calculateForecast(args.historicalData, args.horizon, "monthly",
                                args.confidenceLevel, args.method)
    /\ pc' = "forecast"
    /\ UNCHANGED <<fn, args, ret, chatVars>>

CalculateSupplyChainMetrics ==
    /\ pc = "forecast"
    /\ ret' = calculateSupplyChainMetrics(raw, args.historicalStdDev, args.leadTimeDays,
                                          args.serviceLevel, args.onHand, args.scenarios,
                                          args.showOffset, args.volatilityMultiplier,
                                          args.attributes)
    /\ pc' = "return"
    /\ UNCHANGED <<fn, args, raw, chatVars>>

CalculateMetrics ==
    /\ pc = "call"
    /\ fn = "calculateMetrics"
    /\ ret' = calculateMetrics(args.actual, args.forecast, args.unitCost, args.sellingPrice)
    /\ pc' = "return"
    /\ UNCHANGED <<fn, args, raw, chatVars>>

CalculateMetricsV1 ==
    /\ pc = "call"
    /\ fn = "calculateMetricsV1"
    /\ ret' = calculateMetricsV1(args.actual, args.forecast, args.unitCost, args.sellingPrice)
    /\ pc' = "return"
    /\ UNCHANGED <<fn, args, raw, chatVars>>

RunParetoAnalysis ==
    /\ pc = "call"
    /\ fn = "runParetoAnalysis"
    /\ ret' = runParetoAnalysis(args.skuData)
    /\ pc' = "return"
    /\ UNCHANGED <<fn, args, raw, chatVars>>

GetZMultiplier ==
    /\ pc = "call"
    /\ fn = "getZMultiplier"
    /\ ret' = <<getZMultiplier(args[1].conf), getZMultiplier(args[2].conf)>>
    /\ pc' = "return"
    /\ UNCHANGED <<fn, args, raw, chatVars>>

GetZMultiplierV1 ==
    /\ pc = "call"
    /\ fn = "getZMultiplierV1"
    /\ ret' = <<getZMultiplierV1(args[1].conf), getZMultiplierV1(args[2].conf)>>
    /\ pc' = "return"
    /\ UNCHANGED <<fn, args, raw, chatVars>>

GetZScore ==
    /\ pc = "call"
    /\ fn = "getZScore"
    /\ ret' = <<getZScore(args[1].serviceLevel), getZScore(args[2].serviceLevel)>>
    /\ pc' = "return"
    /\ UNCHANGED <<fn, args, raw, chatVars>>

CleanAnomalies ==
    /\ pc = "call"
    /\ fn = "cleanAnomalies"
    /\ ret' = cleanAnomalies(args.data)
    /\ pc' = "return"
    /\ UNCHANGED <<fn, args, raw, chatVars>>

CleanAnomaliesV1 ==
    /\ pc = "call"
    /\ fn = "cleanAnomaliesV1"
    /\ ret' = cleanAnomaliesV1(args.data)
    /\ pc' = "return"
    /\ UNCHANGED <<fn, args, raw, chatVars>>

\* The chat panel mounted by App.tsx, in the state of its useState calls.
InitChat ==
    /\ pc = "mounted"
    /\ fn = "ChatAgent"
    /\ args = <<>>
    /\ raw = <<>>
    /\ ret = <<>>
    /\ ChatAgentInitial

\* The floating button: onClick={() => setIsOpen(!isOpen)}.
ToggleOpen ==
    /\ fn = "ChatAgent"
    /\ isOpen' = ~isOpen
    /\ UNCHANGED <<callVars, messages, input, isLoading, requests>>

\* The close button of the panel: onClick={() => setIsOpen(false)}.
CloseChat ==
    /\ fn = "ChatAgent"
    /\ isOpen
    /\ isOpen' = FALSE
    /\ UNCHANGED <<callVars, messages, input, isLoading, requests>>

\* The user edits the input field, which the panel shows and does not disable.
SetInput ==
    /\ fn = "ChatAgent"
    /\ isOpen
    /\ ~InputDisabled(isLoading, messages)
    /\ \E text \in ChatInputs : input' = text
    /\ UNCHANGED <<callVars, isOpen, messages, isLoading, requests>>

\* handleSend up to its await.  It is called in every state of the open panel, so
\* that its own guard decides, not the disabled attribute of the controls.
HandleSend ==
    /\ fn = "ChatAgent"
    /\ isOpen
    /\ IF SendBlocked(input, isLoading, messages)
       THEN UNCHANGED <<messages, input, isLoading, requests>>
       ELSE /\ messages' = NewMessages(messages, UserMessage(input))
            /\ input' = <<>>
            /\ isLoading' = TRUE
            /\ requests' = Append(requests,
                                  [newMessages |-> NewMessages(messages, UserMessage(input))])
    /\ UNCHANGED <<callVars, isOpen>>

\* One call of getChatResponse resolves and its handleSend goes on after the await,
\* with the newMessages it built before the await.
ReceiveReply ==
    /\ fn = "ChatAgent"
    /\ \E i \in DOMAIN requests, response \in ChatResponses :
          /\ messages' = Append(requests[i].newMessages, AssistantMessage(response))
          /\ requests' = [k \in 1..(Len(requests) - 1) |->
                              IF k < i THEN requests[k] ELSE requests[k + 1]]
    /\ isLoading' = FALSE
    /\ UNCHANGED <<callVars, isOpen, input>>

\* The reset button of the panel.
ClearChat ==
    /\ fn = "ChatAgent"
    /\ isOpen
    /\ messages' = <<>>
    /\ isOpen' = FALSE
    /\ UNCHANGED <<callVars, input, isLoading, requests>>

NextMethods == RunHoltWinters \/ RunProphet \/ RunArima \/ RunLinear
NextForecast == CalculateForecast \/ CalculateSupplyChainMetrics
NextSupplyChain == CalculateSupplyChainMetrics
NextMetrics == CalculateMetrics \/ CalculateMetricsV1
NextPareto == RunParetoAnalysis
NextBands == GetZMultiplier \/ GetZMultiplierV1 \/ GetZScore

SpecMethods == InitMethods /\ [][NextMethods]_vars
SpecForecast == InitForecast /\ [][NextForecast]_vars
SpecSupplyChain == InitSupplyChain /\ [][NextSupplyChain]_vars
SpecMetrics == InitMetrics /\ [][NextMetrics]_vars
SpecPareto == InitPareto /\ [][NextPareto]_vars
SpecBands == InitBands /\ [][NextBands]_vars
SpecLinear == InitLinear /\ [][NextForecast]_vars
NextClean == CleanAnomalies \/ CleanAnomaliesV1
SpecClean == InitClean /\ [][NextClean]_vars
NextChat == ToggleOpen \/ CloseChat \/ SetInput \/ HandleSend \/ ReceiveReply \/ ClearChat
SpecChat == InitChat /\ [][NextChat]_vars

Init ==
    \/ InitMethods
    \/ InitForecast
    \/ InitSupplyChain
    \/ InitMetrics
    \/ InitPareto
    \/ InitBands
    \/ InitLinear
    \/ InitClean
    \/ InitChat
Next ==
    \/ RunHoltWinters
    \/ RunProphet
    \/ RunArima
    \/ RunLinear
    \/ CalculateForecast
    \/ CalculateSupplyChainMetrics
    \/ CalculateMetrics
    \/ CalculateMetricsV1
    \/ RunParetoAnalysis
    \/ GetZMultiplier
    \/ GetZMultiplierV1
    \/ GetZScore
    \/ CleanAnomalies
    \/ CleanAnomaliesV1
    \/ ToggleOpen
    \/ CloseChat
    \/ SetInput
    \/ HandleSend
    \/ ReceiveReply
    \/ ClearChat
Spec == Init /\ [][Next]_vars

---------------------------------------------------------------------------
(* Properties of calculateForecast and of the forecast methods *)

\* C1: for every history H of at least 3 points, every horizon >= 1 and each of the
\* four methods, calculateForecast returns |H| + horizon points; the first |H|
\* carry, in input order, historical = forecast = the input quantity with
\* isForecast = false, and the remaining horizon points have isForecast = true.
C1_EchoThenForecast ==
    (fn = "calculateForecast" /\ pc # "call" /\ Len(args.historicalData) >= 3) =>
        /\ Len(raw) = Len(args.historicalData) + args.horizon
        /\ \A k \in 1..Len(args.historicalData) :
              /\ raw[k].historical = args.historicalData[k].quantity
              /\ raw[k].forecast = args.historicalData[k].quantity
              /\ raw[k].isForecast = FALSE
        /\ \A k \in (Len(args.historicalData) + 1)..Len(raw) : raw[k].isForecast = TRUE

\* A history of 3 points forecast over the longest horizon has returned.
C1_Witness ==
    /\ fn = "calculateForecast"
    /\ pc = "forecast"
    /\ Len(args.historicalData) = 3
    /\ args.horizon = MaxHorizon
    /\ Len(raw) = 3 + MaxHorizon
    /\ raw[3].historical = N(MaxQuantity)
    /\ raw[Len(raw)].isForecast

\* C2: for every non-negative series of at least 3 values and every horizon >= 1,
\* also horizons longer than the series, each of the four forecast methods
\* returns exactly horizon values and each value is a defined number >= 0.
C2_MethodsNonNegative ==
    (fn \in MethodNames /\ pc = "return") =>
        /\ Len(ret) = args.horizon
        /\ \A k \in 1..Len(ret) : Ge(ret[k], N(0))

\* C3: for every history of fewer than 3 points calculateForecast returns the empty
\* sequence, whatever the horizon, confidence level and method, and
\* calculateSupplyChainMetrics applied to that empty sequence returns an empty
\* sequence too.
C3_ShortHistoryEmpty ==
    (fn = "calculateForecast" /\ Len(args.historicalData) < 3) =>
        /\ pc # "call" => raw = <<>>
        /\ pc = "return" => ret = <<>>

\* Both functions have returned on a history of 2 points.
C3_Witness ==
    /\ fn = "calculateForecast"
    /\ pc = "return"
    /\ Len(args.historicalData) = 2
    /\ raw = <<>>
    /\ ret = <<>>

---------------------------------------------------------------------------
(* Properties of calculateMetrics *)

\* Number of aligned pairs of a call of calculateMetrics.
AlignedPairs == MinInt(Len(args.actual), Len(args.forecast))

\* Sum of |forecast[i] - actual[i]| / actual[i] over the first k pairs with actual[i] # 0.
RECURSIVE AbsPercentErrorSum(_, _, _)
AbsPercentErrorSum(actual, forecast, k) ==
    IF k = 0 THEN N(0)
    ELSE IF actual[k] = N(0) THEN AbsPercentErrorSum(actual, forecast, k - 1)
    ELSE Add(AbsPercentErrorSum(actual, forecast, k - 1),
             Abs(Div(Sub(forecast[k], actual[k]), actual[k])))

\* C4: calculateMetrics returns mape = 100 * (sum of |forecast[i] - actual[i]| /
\* actual[i] over the aligned pairs with actual[i] # 0) / n, n the number of
\* aligned pairs, and accuracy = max(0, 100 - mape).
C4_MapeIsMeanAbsPercentError ==
    (fn \in {"calculateMetrics", "calculateMetricsV1"} /\ pc = "return" /\ AlignedPairs >= 1) =>
        LET mape == Div(Mul(N(100), AbsPercentErrorSum(args.actual, args.forecast,
                                                       AlignedPairs)),
                        N(AlignedPairs))
        IN  /\ ret.mape = mape
            /\ ret.accuracy = MathMax(N(0), Sub(N(100), mape))

\* C5: for every non-empty series actual of non-negative quantities, all-zero series
\* included, and any unitCost and sellingPrice, calculateMetrics(actual, actual,
\* unitCost, sellingPrice) returns mape = 0, rmse = 0, bias = 0, mad = 0,
\* accuracy = 100, holdingCostRisk = 0 and stockoutRevenueRisk = 0.
C5_PerfectForecast ==
    (fn = "calculateMetrics" /\ pc = "return" /\ Len(args.actual) >= 1
        /\ args.forecast = args.actual) =>
        ret = [mape |-> N(0), rmse |-> N(0), bias |-> N(0), mad |-> N(0),
               accuracy |-> N(100), holdingCostRisk |-> N(0),
               stockoutRevenueRisk |-> N(0)]

\* C6: no division by an empty or all-zero divisor reaches a result: every numeric
\* field is finite in the result of calculateMetrics on aligned pairs whose
\* actual values sum to 0, of runParetoAnalysis on an empty list or on volumes
\* that are all 0, and of calculateSupplyChainMetrics on a series without
\* forecast points.
C6_NoNaNOrInfinity ==
    /\ (fn = "calculateMetrics" /\ pc = "return"
            /\ SumUpTo(args.actual, AlignedPairs) = N(0)) =>
           \A f \in DOMAIN ret : IsFinite(ret[f])
    /\ (fn = "runParetoAnalysis" /\ pc = "return"
            /\ \A k \in 1..Len(args.skuData) : args.skuData[k].totalVolume = N(0)) =>
           \A k \in 1..Len(ret) : IsFinite(ret[k].share) /\ IsFinite(ret[k].totalVolume)
    /\ (fn \in {"calculateForecast", "calculateSupplyChainMetrics"} /\ pc = "return"
            /\ \A k \in 1..Len(raw) : ~raw[k].isForecast) =>
           \A k \in 1..Len(ret) :
               /\ IsFinite(ret[k].safetyStock)
               /\ IsFinite(ret[k].reorderPoint)
               /\ IsFinite(ret[k].projectedInventory)
               /\ IsFinite(ret[k].inventoryValue)

---------------------------------------------------------------------------
(* Properties of runParetoAnalysis *)

\* Total volume of the first k items.
RECURSIVE VolumeUpTo(_, _)
VolumeUpTo(items, k) ==
    IF k = 0 THEN 0 ELSE VolumeUpTo(items, k - 1) + items[k].totalVolume[1]

\* The grade of a cumulative volume cum out of total: A up to 80 percent, B above
\* 80 and up to 95 percent, C above.
GradeOfShare(cum, total) ==
    IF 100 * cum <= 80 * total THEN "A"
    ELSE IF 100 * cum <= 95 * total THEN "B"
    ELSE "C"

\* C7: runParetoAnalysis returns the items in descending totalVolume order, each
\* graded by the cumulative share of the total volume up to and including it:
\* A when that percentage is <= 80, B when it is > 80 and <= 95, C otherwise;
\* totals 500, 300, 150, 50 are graded A, A, B, C.
C7_ParetoGrades ==
    (fn = "runParetoAnalysis" /\ pc = "return") =>
        LET n == Len(args.skuData)
        IN  /\ Len(ret) = n
            /\ {ret[k].sku : k \in 1..n} = 1..n
            /\ \A k \in 1..n : ret[k].totalVolume = args.skuData[ret[k].sku].totalVolume
            /\ \A k \in 1..(n - 1) : Ge(ret[k].totalVolume, ret[k + 1].totalVolume)
            /\ \A k \in 1..n :
                  ret[k].grade = GradeOfShare(VolumeUpTo(ret, k), VolumeUpTo(ret, n))
            /\ [k \in 1..n |-> args.skuData[k].totalVolume] = <<N(500), N(300), N(150), N(50)>>
                  => [k \in 1..n |-> ret[k].grade] = <<"A", "A", "B", "C">>

\* The volumes 50, 500, 150, 300 have been sorted and graded A, A, B, C: the
\* cumulative shares are 50, exactly 80, exactly 95 and 100 percent.
C7_Witness ==
    /\ fn = "runParetoAnalysis"
    /\ pc = "return"
    /\ [k \in 1..Len(args.skuData) |-> args.skuData[k].totalVolume]
           = <<N(50), N(500), N(150), N(300)>>
    /\ [k \in 1..Len(ret) |-> ret[k].sku] = <<2, 4, 3, 1>>
    /\ [k \in 1..Len(ret) |-> ret[k].grade] = <<"A", "A", "B", "C">>

---------------------------------------------------------------------------
(* Properties of calculateSupplyChainMetrics *)

\* Number of forecast points among the first k points of a series.
ForecastRank(series, k) == Cardinality({j \in 1..k : series[j].isForecast})

\* The scenarios of a list that are set for month m.
HasScenario(scenarios, m) == \E i \in 1..Len(scenarios) : scenarios[i].month = m

\* The first scenario of the list set for month m.
FirstScenario(scenarios, m) ==
    scenarios[CHOOSE i \in 1..Len(scenarios) :
                  /\ scenarios[i].month = m
                  /\ \A j \in 1..(i - 1) : scenarios[j].month # m]

\* No two scenarios of the list are set for the same month.
DistinctMonths(scenarios) ==
    \A i, j \in 1..Len(scenarios) : scenarios[i].month = scenarios[j].month => i = j

RECURSIVE ScenarioSumUpTo(_, _)
ScenarioSumUpTo(series, k) ==
    IF k = 0 THEN N(0)
    ELSE IF series[k].isForecast
    THEN Add(ScenarioSumUpTo(series, k - 1), series[k].scenarioForecast)
    ELSE ScenarioSumUpTo(series, k - 1)

\* C9: every historical point has projectedInventory = onHand, and the k-th
\* forecast point has projectedInventory = onHand minus the sum of scenarioForecast
\* over forecast points 1..k: a running balance, never reset and never clamped.
C9_RunningBalance ==
    (fn = "calculateSupplyChainMetrics" /\ pc = "return") =>
        \A k \in 1..Len(ret) :
            IF ret[k].isForecast
            THEN ret[k].projectedInventory = Sub(args.onHand, ScenarioSumUpTo(ret, k))
            ELSE ret[k].projectedInventory = args.onHand

\* A balance that started at 7 has gone below 0 at a second or later forecast
\* point and keeps falling.
C9_Witness ==
    /\ fn = "calculateSupplyChainMetrics"
    /\ pc = "return"
    /\ args.onHand = N(7)
    /\ \E k \in 2..Len(ret) :
          /\ ret[k].isForecast
          /\ ret[k - 1].isForecast
          /\ Lt(ret[k - 1].projectedInventory, N(0))
          /\ Lt(ret[k].projectedInventory, ret[k - 1].projectedInventory)
          /\ ~ret[1].isForecast
          /\ ret[1].projectedInventory = N(7)

\* The first point of the policy engine's result on the forecast series of the
\* state with volatility multiplier v, everything else as in the run.
PolicyAt(v) ==
    calculateSupplyChainMetrics(raw, args.historicalStdDev, args.leadTimeDays,
                                args.serviceLevel, args.onHand, args.scenarios,
                                args.showOffset, v, args.attributes)[1]

\* C10: with the forecast series, historicalStdDev >= 0, leadTimeDays >= 0 and
\* serviceLevel held fixed, for all volatility multipliers 0 <= v1 <= v2 the
\* safetyStock computed with v1 is <= the one computed with v2, and the
\* reorderPoint computed with v1 is <= the one computed with v2.
C10_MonotoneInVolatility ==
    (fn = "calculateForecast" /\ pc = "return" /\ Len(raw) > 0) =>
        \A v1, v2 \in Volatilities :
            Le(v1, v2) =>
                /\ Le(PolicyAt(v1).safetyStock, PolicyAt(v2).safetyStock)
                /\ Le(PolicyAt(v1).reorderPoint, PolicyAt(v2).reorderPoint)

---------------------------------------------------------------------------
(* Properties of the band mappings *)

\* C11: getZMultiplier is monotone over the whole input range: for all confidence
\* percentages c1 <= c2, also below the lowest band, getZMultiplier(c1) <=
\* getZMultiplier(c2); and getZMultiplier(99) = 2.576.
C11_ZMultiplierMonotone ==
    (fn = "getZMultiplier" /\ pc = "return") =>
        /\ Le(args[1].conf, args[2].conf) => Le(ret[1], ret[2])
        /\ args[1].conf = N(99) => ret[1] = Q(2576, 1000)

\* The bands of the service-level mapping: inclusive lower bound and z-score.
ServiceLevelBands ==
    {[bound |-> Q(999, 1000), z |-> Q(309, 100)], [bound |-> Q(99, 100), z |-> Q(233, 100)],
     [bound |-> Q(98, 100), z |-> Q(205, 100)], [bound |-> Q(95, 100), z |-> Q(1645, 1000)],
     [bound |-> Q(90, 100), z |-> Q(128, 100)], [bound |-> Q(85, 100), z |-> Q(104, 100)],
     [bound |-> Q(80, 100), z |-> Q(84, 100)]}

\* The z-score of the highest band whose lower bound is <= s, 0.5 when there is none.
BandZScore(s) ==
    LET reached == {b \in ServiceLevelBands : Le(b.bound, s)}
    IN  IF reached = {} THEN Q(1, 2)
        ELSE (CHOOSE b \in reached : \A c \in reached : Le(c.bound, b.bound)).z

\* C12: getZScore(s) is the z-score of the highest band whose inclusive lower bound
\* is <= s (0.999 -> 3.09, 0.99 -> 2.33, 0.98 -> 2.05, 0.95 -> 1.645, 0.90 -> 1.28,
\* 0.85 -> 1.04, 0.80 -> 0.84) and 0.5 for every s that reaches no band, inputs
\* outside 0..1 included; so the result is non-decreasing in s.
C12_ServiceLevelBands ==
    (fn = "getZScore" /\ pc = "return") =>
        /\ \A k \in 1..2 : ret[k] = BandZScore(args[k].serviceLevel)
        /\ Le(args[1].serviceLevel, args[2].serviceLevel) => Le(ret[1], ret[2])

\* Reached: a call on a band boundary next to a call below the lowest band.
C12_Witness ==
    /\ fn = "getZScore"
    /\ pc = "return"
    /\ args[1].serviceLevel = N(-1)
    /\ ret[1] = Q(1, 2)
    /\ args[2].serviceLevel = Q(95, 100)
    /\ ret[2] = Q(1645, 1000)

---------------------------------------------------------------------------
(* Properties of the forecast dates *)

\* The number of the calendar month of a date, counted from year 0.
MonthNumber(date) == date.y * 12 + (date.m - 1)

\* C13: for any last historical date, days 29, 30 and 31 of a month included, the
\* i-th forecast point of calculateForecast (i = 1..horizon) is dated in the i-th
\* calendar month after the month of the last historical date: the forecast dates
\* are strictly increasing with exactly one forecast point per consecutive month.
C13_ConsecutiveMonths ==
    (fn = "calculateForecast" /\ pc \in {"forecast", "return"}
        /\ Len(args.historicalData) >= 3) =>
        LET n == Len(args.historicalData)
            lastDate == args.historicalData[n].date
        IN  \A i \in 1..args.horizon :
                MonthNumber(raw[n + i].date) = MonthNumber(lastDate) + i

---------------------------------------------------------------------------
(* Properties of calculateMetrics: empty series and financial risk *)

\* C14: when actual or forecast is empty (zero aligned pairs), calculateMetrics
\* returns the all-zero metrics object: mape, rmse, bias, mad, accuracy,
\* holdingCostRisk and stockoutRevenueRisk are all 0.
C14_EmptyAllZero ==
    (fn \in {"calculateMetrics", "calculateMetricsV1"} /\ pc = "return"
        /\ (args.actual = <<>> \/ args.forecast = <<>>)) =>
        /\ ret.mape = N(0)
        /\ ret.rmse = N(0)
        /\ ret.bias = N(0)
        /\ ret.mad = N(0)
        /\ ret.accuracy = N(0)
        /\ ret.holdingCostRisk = N(0)
        /\ ret.stockoutRevenueRisk = N(0)

\* Sum of forecast[i] - actual[i] over the first k pairs with forecast[i] > actual[i].
RECURSIVE OverstockSum(_, _, _)
OverstockSum(actual, forecast, k) ==
    IF k = 0 THEN N(0)
    ELSE IF Gt(forecast[k], actual[k])
         THEN Add(OverstockSum(actual, forecast, k - 1), Sub(forecast[k], actual[k]))
         ELSE OverstockSum(actual, forecast, k - 1)

\* Sum of actual[i] - forecast[i] over the first k pairs with forecast[i] < actual[i].
RECURSIVE StockoutSum(_, _, _)
StockoutSum(actual, forecast, k) ==
    IF k = 0 THEN N(0)
    ELSE IF Lt(forecast[k], actual[k])
         THEN Add(StockoutSum(actual, forecast, k - 1), Sub(actual[k], forecast[k]))
         ELSE StockoutSum(actual, forecast, k - 1)

\* C15: calculateMetrics returns holdingCostRisk = (sum of forecast - actual over the
\* pairs where forecast > actual) x unitCost x 0.02 and stockoutRevenueRisk = (sum
\* of actual - forecast over the pairs where forecast < actual) x (sellingPrice -
\* unitCost).
C15_FinancialRisk ==
    (fn \in {"calculateMetrics", "calculateMetricsV1"} /\ pc = "return") =>
        /\ ret.holdingCostRisk =
               Mul(Mul(OverstockSum(args.actual, args.forecast, AlignedPairs),
                       args.unitCost), Q(2, 100))
        /\ ret.stockoutRevenueRisk =
               Mul(StockoutSum(args.actual, args.forecast, AlignedPairs),
                   Sub(args.sellingPrice, args.unitCost))

---------------------------------------------------------------------------
(* Properties of the policy engine: duplicate scenarios, date offset, policy values *)

\* The positions in the list of the scenarios set for month m.
ScenariosFor(scenarios, m) == {i \in 1..Len(scenarios) : scenarios[i].month = m}

\* The last scenario of the list set for month m.
LastScenario(scenarios, m) ==
    scenarios[CHOOSE i \in ScenariosFor(scenarios, m) :
                  \A j \in ScenariosFor(scenarios, m) : j <= i]

\* C16 (as amended): when several scenarios of the list have the same month, exactly
\* one of their multipliers is applied to that forecast period, never a product of
\* two, and the one applied is the first such scenario in list order: the period's
\* scenarioForecast is Math.round(forecast * multiplier of the first).
C16_FirstOfDuplicatesWins ==
    (fn = "calculateSupplyChainMetrics" /\ pc = "return") =>
        \A k \in 1..Len(raw) :
            (raw[k].isForecast
                /\ Cardinality(ScenariosFor(args.scenarios, ForecastRank(raw, k))) >= 2) =>
                ret[k].scenarioForecast =
                    MathRound(Mul(raw[k].forecast,
                                  FirstScenario(args.scenarios,
                                                ForecastRank(raw, k)).multiplier))

\* Two scenarios for month 1, multipliers 1.5 then 0.5, have met a forecast of 2:
\* the scenario forecast is 3 (the last would give 1, both together 2).
C16_Witness ==
    /\ fn = "calculateSupplyChainMetrics"
    /\ pc = "return"
    /\ Len(args.scenarios) = 2
    /\ args.scenarios[1].month = 1
    /\ args.scenarios[2].month = 1
    /\ args.scenarios[1].multiplier = Q(3, 2)
    /\ args.scenarios[2].multiplier = Q(1, 2)
    /\ Len(raw) = 3 + MaxHorizon
    /\ raw[4].forecast = N(2)
    /\ ret[4].scenarioForecast = N(3)

\* C16 (as stated): when several scenarios of the list have the same month, exactly
\* one of their multipliers is applied to that forecast period, and the one applied
\* is the last such scenario in list order.
C16_LastOfDuplicatesWins ==
    (fn = "calculateSupplyChainMetrics" /\ pc = "return") =>
        \A k \in 1..Len(raw) :
            (raw[k].isForecast
                /\ Cardinality(ScenariosFor(args.scenarios, ForecastRank(raw, k))) >= 2) =>
                ret[k].scenarioForecast =
                    MathRound(Mul(raw[k].forecast,
                                  LastScenario(args.scenarios,
                                               ForecastRank(raw, k)).multiplier))

\* Days from 1 January 2000 to 1 January of year y (y >= 2000).
RECURSIVE DaysBeforeYear(_)
DaysBeforeYear(y) ==
    IF y <= 2000 THEN 0
    ELSE DaysBeforeYear(y - 1) + (IF IsLeap(y - 1) THEN 366 ELSE 365)

\* Days from 1 January of year y to the first of month m of that year.
RECURSIVE DaysBeforeMonth(_, _)
DaysBeforeMonth(y, m) ==
    IF m = 1 THEN 0 ELSE DaysBeforeMonth(y, m - 1) + DaysInMonth(y, m - 1)

\* The number of a calendar day, counted from 1 January 2000.
DayNumber(date) == DaysBeforeYear(date.y) + DaysBeforeMonth(date.y, date.m) + (date.d - 1)

\* A date of the calendar.
IsCalendarDate(date) ==
    /\ date.m \in 1..12
    /\ date.d \in 1..DaysInMonth(date.y, date.m)

\* The series the call of this run returns when showOffset is false, everything
\* else the same.
WithoutOffset ==
    calculateSupplyChainMetrics(raw, args.historicalStdDev, args.leadTimeDays,
                                args.serviceLevel, args.onHand, args.scenarios,
                                FALSE, args.volatilityMultiplier, args.attributes)

\* C17: for identical other inputs, calculateSupplyChainMetrics with showOffset =
\* true and with showOffset = false return series that agree on every field except
\* date: all numeric fields are equal point by point, the dates of historical
\* points are unchanged, and each forecast point's date is moved back by the
\* unadjusted leadTimeDays, not by the volatility-adjusted lead time.
C17_OffsetIsCosmetic ==
    (fn = "calculateSupplyChainMetrics" /\ pc = "return" /\ args.showOffset) =>
        /\ Len(ret) = Len(WithoutOffset)
        /\ \A k \in 1..Len(ret) :
              /\ [ret[k] EXCEPT !.date = WithoutOffset[k].date] = WithoutOffset[k]
              /\ WithoutOffset[k].date = raw[k].date
              /\ ~raw[k].isForecast => ret[k].date = raw[k].date
              /\ raw[k].isForecast =>
                     /\ IsCalendarDate(ret[k].date)
                     /\ DayNumber(ret[k].date) =
                            DayNumber(raw[k].date) - args.leadTimeDays[1]

\* Reached: lead time 45 days under volatility 0.5 (adjusted lead time 67.5 days),
\* the first forecast point of 1 January 2024 is shown on 17 November 2023.
C17_Witness ==
    /\ fn = "calculateSupplyChainMetrics"
    /\ pc = "return"
    /\ args.showOffset
    /\ args.leadTimeDays = N(45)
    /\ args.volatilityMultiplier = Q(1, 2)
    /\ Len(raw) = 3 + MaxHorizon
    /\ raw[4].date = [y |-> 2024, m |-> 1, d |-> 1]
    /\ ret[4].date = [y |-> 2023, m |-> 11, d |-> 17]
    /\ ret[3].date = raw[3].date

\* C18: every point of the series returned by one call of
\* calculateSupplyChainMetrics, historical and forecast alike, carries the same
\* safetyStock value and the same reorderPoint value, whatever scenarios are
\* applied and however the running inventory evolves.
C18_PolicyValuesConstant ==
    (fn = "calculateSupplyChainMetrics" /\ pc = "return") =>
        \A j \in 1..Len(ret), k \in 1..Len(ret) :
            /\ ret[j].safetyStock = ret[k].safetyStock
            /\ ret[j].reorderPoint = ret[k].reorderPoint

\* Reached: a scenario is applied and the projected inventory falls from point to
\* point, while the last historical point and the forecast points carry one positive
\* safety stock and one positive reorder point.
C18_Witness ==
    /\ fn = "calculateSupplyChainMetrics"
    /\ pc = "return"
    /\ Len(args.scenarios) >= 1
    /\ args.scenarios[1].month = 1
    /\ Len(ret) = 3 + MaxHorizon
    /\ ~ret[3].isForecast
    /\ ret[4].isForecast
    /\ ret[4].scenarioForecast # ret[4].forecast
    /\ Lt(ret[5].projectedInventory, ret[4].projectedInventory)
    /\ Gt(ret[3].safetyStock, N(0))
    /\ Gt(ret[3].reorderPoint, ret[3].safetyStock)
    /\ ret[4].safetyStock = ret[3].safetyStock
    /\ ret[3 + MaxHorizon].reorderPoint = ret[3].reorderPoint

---------------------------------------------------------------------------
(* Properties of the linear method on a linear history *)

\* The quantities of the history of this run, as integers.
HistoryValues == [k \in 1..Len(args.historicalData) |-> args.historicalData[k].quantity[1]]

\* y_i = a + b * i for i = 0 .. N - 1, with a = y_0 and b = y_1 - y_0.
IsLinear(y) == \A i \in 1..Len(y) : y[i] = y[1] + (y[2] - y[1]) * (i - 1)

\* The history 100, 110, ..., 210.
ExampleHistory == LinearSeries(100, 10, 12)

\* C19: for a history that is exactly linear, y_i = a + b*i for i = 0..N-1 with
\* N >= 3 and non-negative projections, calculateForecast with the Linear Regression
\* method returns forecast a + b*(N + step - 1) for step = 1..horizon; for
\* [100,110,...,210] with horizon 3 and confidence 95 the forecasts are
\* [220, 230, 240], and at each of the three steps upperBound - forecast equals
\* forecast - lowerBound with that half-width growing from step to step.
C19_LinearHistory ==
    (fn = "calculateForecast" /\ pc \in {"forecast", "return"} /\ args.method = LINEAR
        /\ Len(HistoryValues) >= 3 /\ IsLinear(HistoryValues)) =>
        LET y == HistoryValues
            n == Len(y)
            a == y[1]
            b == y[2] - y[1]
        IN  /\ \A step \in 1..args.horizon :
                  a + b * (n + step - 1) >= 0 =>
                      raw[n + step].forecast = N(a + b * (n + step - 1))
            /\ (y = ExampleHistory /\ args.horizon = 3 /\ args.confidenceLevel = N(95)) =>
                  /\ raw[13].forecast = N(220)
                  /\ raw[14].forecast = N(230)
                  /\ raw[15].forecast = N(240)
                  /\ \A k \in 13..15 :
                        /\ Sub(raw[k].upperBound, raw[k].forecast) =
                               Sub(raw[k].forecast, raw[k].lowerBound)
                        /\ Gt(Sub(raw[k].upperBound, raw[k].forecast), N(0))
                  /\ \A k \in 13..14 :
                        Lt(Sub(raw[k].upperBound, raw[k].forecast),
                           Sub(raw[k + 1].upperBound, raw[k + 1].forecast))

\* Reached: the history 100, 110, ..., 210 with horizon 3 at confidence 95 gives
\* 220, 230, 240.
C19_Witness ==
    /\ fn = "calculateForecast"
    /\ pc = "forecast"
    /\ args.method = LINEAR
    /\ HistoryValues = ExampleHistory
    /\ args.horizon = 3
    /\ args.confidenceLevel = N(95)
    /\ Len(raw) = 15
    /\ raw[13].forecast = N(220)
    /\ raw[15].forecast = N(240)
    /\ raw[15].isForecast

---------------------------------------------------------------------------
(* Properties of cleanAnomalies *)

\* The quantities of a series.
QuantitiesOf(data) == [k \in 1..Len(data) |-> data[k].quantity]

\* The mean of the quantities of a series, exactly.
MeanOf(data) == Div(Sum(QuantitiesOf(data)), N(Len(data)))

\* |q - mean| > 2.5 x population standard deviation of the series, decided on the
\* squares: (q - mean)^2 > 6.25 x (sum of squared deviations) / n.
IsOutlier(q, data) ==
    Gt(Mul(Sub(q, MeanOf(data)), Sub(q, MeanOf(data))),
       Mul(Q(625, 100), Div(SumSqDev(QuantitiesOf(data), MeanOf(data), Len(data)),
                            N(Len(data)))))

---------------------------------------------------------------------------
(* Properties of runParetoAnalysis: permutation, grade order, last item *)

\* The sku / totalVolume pair of an item.
PairOf(item) == [sku |-> item.sku, totalVolume |-> item.totalVolume]

\* How many items of a list carry the pair x.
Occurrences(items, x) == Cardinality({k \in 1..Len(items) : PairOf(items[k]) = x})

\* The total volume of a list of items.
TotalVolume(items) == Sum([k \in 1..Len(items) |-> items[k].totalVolume])

\* C21: the result of runParetoAnalysis is a permutation of the input items (same
\* multiset of sku / totalVolume pairs, none dropped or duplicated) ordered by
\* non-increasing totalVolume, each with share = 100 x totalVolume / total (where
\* the total is not 0), and the input array is left in its original order and
\* content.
C21_ParetoPermutation ==
    [][(fn = "runParetoAnalysis" /\ pc = "call" /\ pc' = "return") =>
          /\ args' = args
          /\ Len(ret') = Len(args.skuData)
          /\ \A k \in 1..Len(args.skuData) :
                /\ Occurrences(ret', PairOf(args.skuData[k])) =
                       Occurrences(args.skuData, PairOf(args.skuData[k]))
                /\ Occurrences(args.skuData, PairOf(ret'[k])) >= 1
          /\ \A k \in 1..(Len(ret') - 1) : Ge(ret'[k].totalVolume, ret'[k + 1].totalVolume)
          /\ TotalVolume(args.skuData) # N(0) =>
                \A k \in 1..Len(ret') :
                    ret'[k].share = Div(Mul(N(100), ret'[k].totalVolume),
                                        TotalVolume(args.skuData))]_vars

\* Reached: the volumes 50, 300, 50, 500 come back as 500, 300, 50, 50 with shares
\* 55.6, 33.3, 5.6 and 5.6 percent, the two items of volume 50 in their input order.
C21_Witness ==
    /\ fn = "runParetoAnalysis"
    /\ pc = "return"
    /\ [k \in 1..Len(args.skuData) |-> args.skuData[k].totalVolume]
           = <<N(50), N(300), N(50), N(500)>>
    /\ [k \in 1..Len(ret) |-> ret[k].sku] = <<4, 2, 1, 3>>
    /\ ret[1].share = Q(500, 9)
    /\ ret[4].share = Q(50, 9)

---------------------------------------------------------------------------
(* Properties of the confidence bounds and of the forecast methods *)

\* The quantities of the history of this run, as numbers.
HistoryQuantities ==
    Pushed([k \in 1..Len(args.historicalData) |-> args.historicalData[k].quantity],
           Len(args.historicalData))

\* The raw values the selected method returns for this run.
RawValues ==
    IF args.method = LINEAR THEN runLinear(HistoryQuantities, args.horizon)
    ELSE IF args.method = PROPHET THEN runProphet(HistoryQuantities, args.horizon)
    ELSE IF args.method = ARIMA THEN runArima(HistoryQuantities, args.horizon)
    ELSE runHoltWinters(HistoryQuantities, args.horizon, 12)

\* u = zMultiplier x stdDev x sqrt(step) x damping, the damping being 0.4.
UncertaintyAt(step) ==
    FMul(FMul(FMul(getZMultiplier(args.confidenceLevel), getStdDev(HistoryQuantities)),
              MathSqrt(N(step))), Q(4, 10))

\* C22: for every forecast point produced by calculateForecast, lowerBound =
\* max(0, round(raw - u)) and upperBound = round(raw + u) with u = zMultiplier x
\* stdDev x sqrt(step) x damping >= 0, so that 0 <= lowerBound <= forecast <=
\* upperBound holds at every forecast step; historical points carry neither
\* lowerBound nor upperBound.
C22_BoundsOrdered ==
    (fn = "calculateForecast" /\ pc \in {"forecast", "return"}
        /\ Len(args.historicalData) >= 3) =>
        LET n == Len(args.historicalData)
        IN  /\ \A k \in 1..n :
                  /\ "lowerBound" \notin DOMAIN raw[k]
                  /\ "upperBound" \notin DOMAIN raw[k]
            /\ \A step \in 1..args.horizon :
                  LET p == raw[n + step]
                      u == UncertaintyAt(step)
                  IN  /\ Ge(u, N(0))
                      /\ p.lowerBound = MathMax(N(0), MathRound(Sub(RawValues[step], u)))
                      /\ p.upperBound = MathRound(Add(RawValues[step], u))
                      /\ Le(N(0), p.lowerBound)
                      /\ Le(p.lowerBound, p.forecast)
                      /\ Le(p.forecast, p.upperBound)

\* The most recent 12 values of a series (all of them when there are fewer).
Template(values) ==
    [j \in 1..MinInt(Len(values), 12) |->
        values[Len(values) - MinInt(Len(values), 12) + j]]

\* C23: for every history of length N >= 3 (also N < 12) and every step i in
\* 1..horizon, the Prophet-inspired method returns max(0, template[(i - 1) mod 12]
\* + ((last - first) / N) x 1.2 x i), where template is the most recent 12 observed
\* values and the indexed template entry exists for every step.
C23_ProphetTemplate ==
    (fn = "runProphet" /\ pc = "return") =>
        LET values == args.values
            n == Len(values)
            growthRate == Div(Sub(values[n], values[1]), N(n))
        IN  /\ Len(ret) = args.horizon
            /\ \A i \in 1..args.horizon :
                  /\ ((i - 1) % 12) + 1 <= Len(Template(values))
                  /\ ret[i] = MathMax(N(0),
                                  Add(Template(values)[((i - 1) % 12) + 1],
                                      Mul(Mul(growthRate, Q(12, 10)), N(i))))

\* q to the power k.
RECURSIVE Power(_, _)
Power(q, k) == IF k = 0 THEN N(1) ELSE Mul(q, Power(q, k - 1))

\* The mean of a series of values, exactly.
MeanOfValues(values) == Div(Sum(values), N(Len(values)))

\* C24: the ARIMA-inspired method is mean-reverting: with m the mean of the full
\* history and v the last observed value, the k-th forecast equals m + 0.85^k x
\* (v - m), so every forecast lies between v and m, never crosses m, and its
\* distance to m strictly decreases with k whenever v differs from m.
C24_ArimaMeanReverting ==
    (fn = "runArima" /\ pc = "return") =>
        LET m == MeanOfValues(args.values)
            v == args.values[Len(args.values)]
            dist(k) == IF k = 0 THEN Abs(Sub(v, m)) ELSE Abs(Sub(ret[k], m))
        IN  /\ Len(ret) = args.horizon
            /\ \A k \in 1..args.horizon :
                  /\ ret[k] = Add(m, Mul(Power(Q(85, 100), k), Sub(v, m)))
                  /\ Ge(Sub(ret[k], MathMin(v, m)), N(0))
                  /\ Ge(Sub(MathMax(v, m), ret[k]), N(0))
                  /\ Gt(v, m) => Gt(Sub(ret[k], m), N(0))
                  /\ Lt(v, m) => Lt(Sub(ret[k], m), N(0))
                  /\ v = m => ret[k] = m
                  /\ v # m => Gt(Sub(dist(k - 1), dist(k)), N(0))

\* Reached: the history 0, 0, 2 has mean 2/3 and last value 2; the first forecast
\* is 2/3 + 0.85 x 4/3 = 1.8 and the second 2/3 + 0.7225 x 4/3.
C24_Witness ==
    /\ fn = "runArima"
    /\ pc = "return"
    /\ args.values = <<N(0), N(0), N(2)>>
    /\ args.horizon = MaxHorizon
    /\ ret[1] = Q(9, 5)
    /\ Gt(Sub(ret[1], ret[2]), N(0))
    /\ Gt(Sub(ret[MaxHorizon], Q(2, 3)), N(0))

\* C25: runHoltWinters never divides by zero: whenever the level or the seasonal
\* index used as a divisor is 0 (a history whose first value is 0, or that contains
\* zero quantities), the divisor 1 is substituted, so for every non-negative series
\* of length >= 3 all horizon outputs are finite numbers; seasonal slots beyond the
\* history length start at the default index 1.
C25_HoltWintersFinite ==
    (fn = "runHoltWinters" /\ pc = "return") =>
        LET values == args.values
            n == Len(values)
        IN  /\ Len(ret) = args.horizon
            /\ \A i \in 1..args.horizon : IsFinite(ret[i])
            /\ \A k \in 0..n :
                  /\ IsFinite(HWLoop(values, 12, k).level)
                  /\ IsFinite(HWLoop(values, 12, k).trend)
                  /\ \A j \in 1..12 : IsFinite(HWLoop(values, 12, k).seasonal[j])
            /\ \A j \in (n + 1)..12 : HWInitSeasonal(values, 12, values[1])[j] = N(1)
            /\ \A j \in 1..MinInt(n, 12) :
                  HWInitSeasonal(values, 12, values[1])[j] =
                      FDiv(values[j], IF values[1] = N(0) THEN N(1) ELSE values[1])

\* Reached: the history 0, 2, 0, 1 starts at level 0 and meets the seasonal index
\* 0: both divisors are replaced by 1 and every output is a finite number.
C25_Witness ==
    /\ fn = "runHoltWinters"
    /\ pc = "return"
    /\ args.values = <<N(0), N(2), N(0), N(1)>>
    /\ args.horizon = MaxHorizon
    /\ HWInitSeasonal(args.values, 12, N(0)) =
           <<N(0), N(2), N(0), N(1), N(1), N(1), N(1), N(1), N(1), N(1), N(1), N(1)>>
    /\ \A i \in 1..MaxHorizon : IsFinite(ret[i])

---------------------------------------------------------------------------
(* Properties of cleanAnomalies on short and on constant series *)

\* All points of a series carry the same quantity.
AllEqual(data) == \A j \in 1..Len(data), k \in 1..Len(data) : data[j].quantity = data[k].quantity

\* C26: for every input series with at most 7 points, cleanAnomalies (threshold 2.5
\* population standard deviations) flags no point and returns every quantity
\* unchanged, because in a series of n points no value deviates from the mean by
\* more than sqrt(n - 1) standard deviations; an all-equal series of any length is
\* likewise returned unchanged.
C26_ShortSeriesUnchanged ==
    (fn = "cleanAnomalies" /\ pc = "return"
        /\ (Len(args.data) <= 7 \/ AllEqual(args.data))) =>
        /\ ret = args.data
        /\ \A k \in 1..Len(args.data) :
              LET d == Sub(args.data[k].quantity, MeanOf(args.data))
              IN  Le(Mul(d, d),
                     Mul(N(Len(args.data) - 1),
                         Div(SumSqDev(QuantitiesOf(args.data), MeanOf(args.data),
                                      Len(args.data)),
                             N(Len(args.data)))))

\* Reached: six months at 0 and one at 40, the largest deviation seven points allow
\* (sqrt(6) = 2.449 standard deviations), come back unchanged.
C26_Witness ==
    /\ fn = "cleanAnomalies"
    /\ pc = "return"
    /\ Len(args.data) = 7
    /\ \A k \in 1..6 : args.data[k].quantity = N(0)
    /\ args.data[7].quantity = N(40)
    /\ ret[7].quantity = N(40)
    /\ ret = args.data

\* The rank of a grade: A before B before C.
GradeRank(grade) == IF grade = "A" THEN 1 ELSE IF grade = "B" THEN 2 ELSE 3

\* The volume of the items of a list whose grade is in the set grades.
RECURSIVE GradeVolume(_, _, _)
GradeVolume(items, grades, k) ==
    IF k = 0 THEN 0
    ELSE GradeVolume(items, grades, k - 1)
         + (IF items[k].grade \in grades THEN items[k].totalVolume[1] ELSE 0)

\* C27: for non-negative volumes, the grades in the output of runParetoAnalysis
\* never improve along the output order: all A items come first, then all B items,
\* then all C items, and the volume of the A items together is at most 80% of the
\* total, that of the A and B items together at most 95%.
C27_GradesNeverImprove ==
    (fn = "runParetoAnalysis" /\ pc = "return") =>
        LET n == Len(ret)
            total == VolumeUpTo(ret, n)
        IN  /\ \A j \in 1..n, k \in 1..n :
                  j < k => GradeRank(ret[j].grade) <= GradeRank(ret[k].grade)
            /\ 100 * GradeVolume(ret, {"A"}, n) <= 80 * total
            /\ 100 * GradeVolume(ret, {"A", "B"}, n) <= 95 * total

\* Reached: the volumes 300, 50, 500, 150 are graded A, A, B, C in output order;
\* the A items hold exactly 80% and the A and B items exactly 95% of the total.
C27_Witness ==
    /\ fn = "runParetoAnalysis"
    /\ pc = "return"
    /\ [k \in 1..Len(args.skuData) |-> args.skuData[k].totalVolume]
           = <<N(300), N(50), N(500), N(150)>>
    /\ [k \in 1..Len(ret) |-> ret[k].grade] = <<"A", "A", "B", "C">>
    /\ GradeVolume(ret, {"A"}, 4) = 800
    /\ GradeVolume(ret, {"A", "B"}, 4) = 950

\* C28: whenever the total volume is greater than 0, the last item in the output of
\* runParetoAnalysis has cumulative share 100% and is graded C; in particular a
\* portfolio with a single SKU, or one whose top SKU alone holds more than 95% of
\* the volume, has no class-A and no class-B item.
C28_LastItemIsC ==
    (fn = "runParetoAnalysis" /\ pc = "return" /\ VolumeUpTo(ret, Len(ret)) > 0) =>
        LET n == Len(ret)
            total == VolumeUpTo(ret, n)
        IN  /\ Mul(Div(N(VolumeUpTo(ret, n)), N(total)), N(100)) = N(100)
            /\ ret[n].grade = "C"
            /\ (n = 1 \/ 100 * ret[1].totalVolume[1] > 95 * total) =>
                  \A k \in 1..n : ret[k].grade = "C"

\* Reached: the volumes 20 and 500; the top SKU holds 96.2% of the volume and both
\* items are graded C.
C28_Witness ==
    /\ fn = "runParetoAnalysis"
    /\ pc = "return"
    /\ [k \in 1..Len(args.skuData) |-> args.skuData[k].totalVolume] = <<N(20), N(500)>>
    /\ [k \in 1..Len(ret) |-> ret[k].sku] = <<2, 1>>
    /\ [k \in 1..Len(ret) |-> ret[k].grade] = <<"C", "C">>

---------------------------------------------------------------------------
(* Properties of the chat panel *)

\* C29: in ChatAgent, under any sequence of send, reply-arrival and clear events,
\* at most one chat request is in flight at a time and the message list never holds
\* more than 20 messages: handleSend does nothing (no request is added, the message
\* list, the input and the loading flag stay as they are under a call of
\* handleSend) while a request is loading, when the input is blank, or once 10
\* turns have been used.
C29_OneRequestTwentyMessages ==
    [][/\ Len(requests) <= 1 /\ Len(requests') <= 1
       /\ Len(messages) <= 20 /\ Len(messages') <= 20
       /\ (isLoading \/ Trim(input) = <<>> \/ Len(messages) >= 2 * MAX_TURNS) =>
             /\ Len(requests') <= Len(requests)
             /\ ~(isLoading' /\ ~isLoading)
             /\ (messages' # messages =>
                    \/ messages' = <<>>
                    \/ messages'[Len(messages')].role = "assistant")]_vars

\* Reached: ten turns have been used and answered; the list holds 20 messages and
\* the panel is open, so that handleSend is called in this state.
C29_Witness ==
    /\ fn = "ChatAgent"
    /\ isOpen
    /\ Len(messages) = 2 * MAX_TURNS
    /\ messages[2 * MAX_TURNS - 1].role = "user"
    /\ messages[2 * MAX_TURNS].role = "assistant"
    /\ ~isLoading
    /\ requests = <<>>

\* C30: in ChatAgent, after clearChat the message list is empty and stays empty
\* until the user sends a new message, also when the reply to a message sent before
\* the clear arrives after the clear: an empty message list becomes non-empty only
\* by a step of handleSend that starts a request.
C30_ClearedStaysEmpty ==
    [][(fn = "ChatAgent" /\ messages = <<>> /\ messages' # <<>>) =>
           (Len(requests') > Len(requests) /\ isLoading' /\ Len(messages') = 1)]_vars

===========================================================================
